---- MODULE Spec2Model ----
(***************************************************************************)
(* dynamorm: the table layer (src/dynamorm/table.py).                      *)
(*                                                                         *)
(* Strings are sequences of tokens, so that str.split / str.join / format  *)
(* are computed and not assumed: "ts__gt" is <<"ts", "__", "gt">> and      *)
(* "a.b" is <<"a", ".", "b">>.  An optional value (a dict key that may be  *)
(* absent, or None) is a sequence of length 0 or 1.                        *)
(***************************************************************************)
EXTENDS Integers, Sequences, FiniteSets, TLC

(***************************************************************************)
(* Bounds of the model.                                                    *)
(***************************************************************************)
MaxItems == 3    \* the store's result set has 0..MaxItems items
MaxPage  == 2    \* the store returns at most 1..MaxPage items per page
MaxLimit == 1    \* limit() is called with 1..MaxLimit
MaxStart == 1    \* start() is called with the position of item 1..MaxStart
MaxMut   == 2    \* configuration calls per iterator when the paging protocol is explored
MaxCfg   == 1    \* configuration calls per iterator when every mutator is explored
MaxReqs  == 4    \* store requests per iterator
MaxOver  == 1    \* next() calls made after the index has passed Count

Min(a, b) == IF a < b THEN a ELSE b

None == <<>>
Some(v) == <<v>>

(***************************************************************************)
(* str.split(sep), str.join and str(int) on token strings.                 *)
(***************************************************************************)
RECURSIVE SplitFrom(_, _, _, _)
SplitFrom(s, sep, i, cur) ==
    IF i > Len(s) THEN <<cur>>
    ELSE IF s[i] = sep THEN <<cur>> \o SplitFrom(s, sep, i + 1, <<>>)
    ELSE SplitFrom(s, sep, i + 1, Append(cur, s[i]))

Split(s, sep) == SplitFrom(s, sep, 1, <<>>)

RECURSIVE Join(_, _)
Join(parts, sep) ==
    IF Len(parts) = 0 THEN <<>>
    ELSE IF Len(parts) = 1 THEN parts[1]
    ELSE parts[1] \o <<sep>> \o Join(Tail(parts), sep)

Digit == <<"0", "1", "2", "3", "4", "5", "6", "7", "8", "9">>

RECURSIVE Str(_)
Str(n) == IF n < 10 THEN <<Digit[n + 1]>> ELSE Str(n \div 10) \o <<Digit[(n % 10) + 1]>>

(***************************************************************************)
(* Values passed as operands.  t is the Python type, a the payload: the    *)
(* number of an int, 1/0 of a bool, the characters of a str, the elements  *)
(* of a list.                                                              *)
(***************************************************************************)
IntV(n)  == [t |-> "int", a |-> <<n>>]
StrV(cs) == [t |-> "str", a |-> cs]
BoolV(b) == [t |-> "bool", a |-> IF b THEN <<1>> ELSE <<0>>]
ListV(es) == [t |-> "list", a |-> es]

IsTrue(v) == v.t = "bool" /\ v.a = <<1>>
IsIterable(v) == v.t \in {"str", "list"}
Elements(v) == [i \in 1..Len(v.a) |-> IF v.t = "str" THEN StrV(<<v.a[i]>>) ELSE IntV(v.a[i])]

(***************************************************************************)
(* The table descriptor of the modelled DynaModel: hash key id, range key  *)
(* ts, global indexes by_color on color and by_size on (size, ts).         *)
(***************************************************************************)
hash_key == <<"id">>
range_key == Some(<<"ts">>)
indexes == { [name |-> <<"by_color">>, hash_key |-> <<"color">>, range_key |-> None],
             [name |-> <<"by_size">>, hash_key |-> <<"size">>, range_key |-> Some(<<"ts">>)] }

table_attribute_fields ==
    {hash_key} \cup (IF range_key # None THEN {range_key[1]} ELSE {})

\* variant of index_attribute_fields: the index name is not looked at
index_attribute_fields_all(index_name) ==
    UNION { {ix.hash_key} \cup (IF ix.range_key # None THEN {ix.range_key[1]} ELSE {}) :
            ix \in indexes }

index_attribute_fields(index_name) ==
    UNION { {ix.hash_key} \cup (IF ix.range_key # None THEN {ix.range_key[1]} ELSE {}) :
            ix \in { jx \in indexes : ~(index_name # <<>> /\ jx.name # index_name) } }

(***************************************************************************)
(* boto3.dynamodb.conditions: the attributes of Key and Attr objects and   *)
(* the number of operands each condition method takes.                     *)
(***************************************************************************)
KeyMethods == {"eq", "lt", "lte", "gt", "gte", "begins_with", "between"}
AttrMethods == KeyMethods \cup {"ne", "is_in", "exists", "not_exists", "contains", "size",
                                "attribute_type"}

HasAttr(cls, part) ==
    /\ Len(part) = 1
    /\ part[1] \in (IF cls = "Key" THEN KeyMethods ELSE AttrMethods) \cup {"name"}

Arity(m) == IF m = "between" THEN 2
            ELSE IF m \in {"exists", "not_exists", "size"} THEN 0
            ELSE 1

Leaf(attr, m, vals) == [cls |-> attr.cls, name |-> attr.name, op |-> m, vals |-> vals]
Ok(leaf) == [err |-> "", leaf |-> <<leaf>>]
Err(e) == [err |-> e, leaf |-> <<>>]

\* variant of get_expression: an iterable operand is unpacked before the
\* operator is tried with the operand as it is
get_expression_unpack(attr, op, value) ==
    IF ~HasAttr(attr.cls, op) THEN Err("AttributeError")
    ELSE IF op[1] = "name" THEN Err("TypeError")
    ELSE IF IsIterable(value)
         THEN IF Len(value.a) = Arity(op[1])
              THEN Ok(Leaf(attr, op[1], Elements(value)))
              ELSE Err("TypeError")
    ELSE IF Arity(op[1]) = 1 THEN Ok(Leaf(attr, op[1], <<value>>))
    ELSE IF IsTrue(value) /\ Arity(op[1]) = 0 THEN Ok(Leaf(attr, op[1], <<>>))
    ELSE Err("TypeError")

get_expression(attr, op, value) ==
    IF ~HasAttr(attr.cls, op) THEN Err("AttributeError")
    ELSE IF op[1] = "name" THEN Err("TypeError")
    ELSE IF Arity(op[1]) = 1 THEN Ok(Leaf(attr, op[1], <<value>>))
    ELSE IF IsTrue(value)
         THEN IF Arity(op[1]) = 0 THEN Ok(Leaf(attr, op[1], <<>>)) ELSE Err("TypeError")
    ELSE IF IsIterable(value)
         THEN IF Len(value.a) = Arity(op[1])
              THEN Ok(Leaf(attr, op[1], Elements(value)))
              ELSE Err("TypeError")
    ELSE Err("TypeError")

(***************************************************************************)
(* A condition expression is the sequence of the leaves of a left-nested   *)
(* chain of And nodes: And(And(a, b), c) is <<a, b, c>>, and None is the   *)
(* empty option.  x & y on two conditions concatenates.                    *)
(***************************************************************************)
AndWith(expression, cond) ==
    IF expression = None THEN Some(cond) ELSE Some(expression[1] \o cond)

\* the inner while loop of Q: nested path segments, then at most one operator
RECURSIVE QParts(_, _)
QParts(name, parts) ==
    IF Len(parts) = 0 THEN [name |-> name, op |-> <<"eq">>, rest |-> <<>>]
    ELSE IF ~HasAttr("Attr", parts[1])
         THEN QParts(name \o <<".">> \o parts[1], Tail(parts))
         ELSE [name |-> name, op |-> parts[1], rest |-> Tail(parts)]

\* mapping is the keyword dict in insertion order; popitem() takes the last
RECURSIVE Q(_)
Q(mapping) ==
    IF Len(mapping) = 0 THEN [err |-> "", expression |-> None]
    ELSE LET entry == mapping[Len(mapping)]
             parts == Split(entry.key, "__")
             p     == QParts(parts[1], Tail(parts))
             e     == get_expression([cls |-> "Attr", name |-> p.name], p.op, entry.value)
             rest  == Q(SubSeq(mapping, 1, Len(mapping) - 1))
         IN  IF p.rest # <<>> THEN [err |-> "AssertionError", expression |-> None]
             ELSE IF e.err # "" THEN [err |-> e.err, expression |-> None]
             ELSE IF rest.err # "" THEN rest
             ELSE [err |-> "", expression |-> Some(e.leaf \o (IF rest.expression = None THEN <<>>
                                                                 ELSE rest.expression[1]))]

\* filter_expression & arg for each positional Q object
RECURSIVE AndArgs(_, _)
AndArgs(expression, args) ==
    IF Len(args) = 0 THEN expression
    ELSE AndArgs(AndWith(expression, args[1]), Tail(args))

(***************************************************************************)
(* The keyword dict handed to the store (query_kwargs / scan_kwargs), and  *)
(* the dict the iterator keeps as dynamo_kwargs.                           *)
(***************************************************************************)
EmptyKwargs ==
    [Limit |-> None, ExclusiveStartKey |-> None, ConsistentRead |-> None,
     ScanIndexForward |-> None, Select |-> None, IndexName |-> None,
     ProjectionExpression |-> None, ExpressionAttributeNames |-> None,
     KeyConditionExpression |-> None, FilterExpression |-> None]

\* key, op = full_key.split('__'), with the ValueError fallback
SplitKeyOp(full_key) ==
    LET parts == Split(full_key, "__")
    IN  IF Len(parts) = 2 THEN [key |-> parts[1], op |-> parts[2]]
        ELSE [key |-> full_key, op |-> <<"eq">>]

IsKeyEntry(key, attr_fields) == key \in attr_fields

\* the while loop of Table.query; kwargs.popitem() takes the last entry
RECURSIVE QueryLoop(_, _, _, _)
QueryLoop(kwargs, attr_fields, query_kwargs, filter_kwargs) ==
    IF Len(kwargs) = 0
    THEN [err |-> "", query_kwargs |-> query_kwargs, filter_kwargs |-> filter_kwargs]
    ELSE LET entry == kwargs[Len(kwargs)]
             rest  == SubSeq(kwargs, 1, Len(kwargs) - 1)
             ko    == SplitKeyOp(entry.key)
             e     == get_expression([cls |-> "Key", name |-> ko.key], ko.op, entry.value)
         IN  IF ~IsKeyEntry(ko.key, attr_fields)
             THEN QueryLoop(rest, attr_fields, query_kwargs, Append(filter_kwargs, entry))
             ELSE IF e.err # ""
             THEN [err |-> e.err, query_kwargs |-> query_kwargs, filter_kwargs |-> filter_kwargs]
             ELSE QueryLoop(rest, attr_fields,
                            [query_kwargs EXCEPT !.KeyConditionExpression =
                                 AndWith(query_kwargs.KeyConditionExpression, e.leaf)],
                            filter_kwargs)

(***************************************************************************)
(* Table.query and Table.scan up to the store call.  The result has the    *)
(* error raised (if any), the state of the caller's query_kwargs /         *)
(* scan_kwargs dict after the call (kept), and the request sent (req).     *)
(***************************************************************************)
\* filter_expression is attached to the request only when there is one
with_filter(dynamo_kwargs, filter_expression) ==
    IF filter_expression # None
    THEN [dynamo_kwargs EXCEPT !.FilterExpression = filter_expression]
    ELSE dynamo_kwargs

\* variant of query_send: the key condition is not required
query_send_any(args, l, q) ==
    IF l.err # "" THEN [err |-> l.err, kept |-> l.query_kwargs, req |-> None]
    ELSE IF q.err # "" THEN [err |-> q.err, kept |-> l.query_kwargs, req |-> None]
    ELSE [err |-> "", kept |-> with_filter(l.query_kwargs, AndArgs(q.expression, args)),
          req |-> Some(with_filter(l.query_kwargs, AndArgs(q.expression, args)))]

\* Table.query after the loop l: the key condition check, then the filter q
query_send(args, l, q) ==
    IF l.err # "" THEN [err |-> l.err, kept |-> l.query_kwargs, req |-> None]
    ELSE IF l.query_kwargs.KeyConditionExpression = None
         THEN [err |-> "InvalidSchemaField", kept |-> l.query_kwargs, req |-> None]
    ELSE IF q.err # "" THEN [err |-> q.err, kept |-> l.query_kwargs, req |-> None]
    ELSE [err |-> "", kept |-> with_filter(l.query_kwargs, AndArgs(q.expression, args)),
          req |-> Some(with_filter(l.query_kwargs, AndArgs(q.expression, args)))]

query_filter(args, l) == query_send(args, l, Q(l.filter_kwargs))

query_attr_fields(query_kwargs) ==
    IF query_kwargs.IndexName # None
    THEN index_attribute_fields(query_kwargs.IndexName[1])
    ELSE table_attribute_fields

Table_query(args, kwargs, query_kwargs) ==
    query_filter(args, QueryLoop(kwargs, query_attr_fields(query_kwargs), query_kwargs, <<>>))

\* Table.scan once the filter q is built
scan_send(args, scan_kwargs, q) ==
    IF q.err # "" THEN [err |-> q.err, kept |-> scan_kwargs, req |-> None]
    \* "kwargs.pop('scan_kwargs', None) or {}": an empty dict is replaced by a new one
    ELSE [err |-> "",
          kept |-> IF scan_kwargs = EmptyKwargs THEN scan_kwargs
                   ELSE with_filter(scan_kwargs, AndArgs(q.expression, args)),
          req |-> Some(with_filter(scan_kwargs, AndArgs(q.expression, args)))]

Table_scan(args, kwargs, scan_kwargs) == scan_send(args, scan_kwargs, Q(kwargs))

(***************************************************************************)
(* The write and point-read operations of DynamoTable3.  A dict is a       *)
(* function from its keys, an ordered keyword dict a sequence of entries,  *)
(* and the store answers each request with an outcome: "ok", "absent" (a   *)
(* get_item that finds nothing) or the Code of a ClientError.              *)
(***************************************************************************)
NoneV == [t |-> "none", a |-> <<>>]

\* the fields of the modelled schema
dynamorm_fields ==
    {<<"id">>, <<"ts">>, <<"color">>, <<"size">>, <<"count">>, <<"tags">>, <<"name">>}

DictSet(d, k, v) == [x \in DOMAIN d \cup {k} |-> IF x = k THEN v ELSE d[x]]

RECURSIVE ToDict(_, _, _)
ToDict(entries, i, d) ==
    IF i > Len(entries) THEN d
    ELSE ToDict(entries, i + 1, DictSet(d, entries[i].key, entries[i].value))

EmptyRequest ==
    [op |-> "", Key |-> None, Item |-> None, Items |-> <<>>, UpdateExpression |-> None,
     ExpressionAttributeNames |-> None, ExpressionAttributeValues |-> None,
     ConditionExpression |-> None, ConsistentRead |-> None]

ConditionalCheckFailed == "ConditionalCheckFailedException"
ThroughputExceeded == "ProvisionedThroughputExceededException"

\* what a facade call ends with: the exception class raised ("" for none), the
\* Code of a ClientError, the value returned, and the requests sent
Raised(e) == [err |-> e, code |-> "", val |-> None, reqs |-> <<>>]

\* self.table.<op>(**request) answered with outcome o
StoreCall(req, o) ==
    IF o \in {"ok", "absent"}
    THEN [err |-> "", code |-> "", val |-> IF o = "ok" THEN Some(1) ELSE None, reqs |-> <<req>>]
    ELSE [err |-> "ClientError", code |-> o, val |-> None, reqs |-> <<req>>]

\* "except ClientError as exc: if Code == 'ConditionalCheckFailedException': raise typed"
Translate(r, typed) ==
    IF r.err = "ClientError" /\ r.code = ConditionalCheckFailed
    THEN [r EXCEPT !.err = typed, !.code = ""]
    ELSE r

IsNotNone(entry) == entry.value # NoneV

\* remove_nones on an item without nested collections
remove_nones(in_dict) == SelectSeq(in_dict, IsNotNone)

\* DynamoTable3.put: kwargs is the ConditionExpression keyword, if any
Table_put(item, kwargs, o) ==
    StoreCall([EmptyRequest EXCEPT !.op = "put_item", !.Item = Some(remove_nones(item)),
                                   !.ConditionExpression = kwargs], o)

\* variant of put_unique_kwargs: a condition passed by the caller is kept
put_unique_kwargs_keep(kwargs) ==
    IF kwargs # None THEN kwargs ELSE Some(<<"attribute_not_exists(">> \o hash_key \o <<")">>)

\* kwargs['ConditionExpression'] = 'attribute_not_exists({0})'.format(self.hash_key)
put_unique_kwargs(kwargs) == Some(<<"attribute_not_exists(">> \o hash_key \o <<")">>)

\* DynamoTable3.put_unique
Table_put_unique(item, kwargs, o) ==
    Translate(Table_put(item, put_unique_kwargs(kwargs), o), "HashKeyExists")

RECURSIVE remove_nones_each(_)
remove_nones_each(items) ==
    IF Len(items) = 0 THEN <<>>
    ELSE <<remove_nones(Head(items))>> \o remove_nones_each(Tail(items))

\* DynamoTable3.put_batch: the batch writer flushes what it buffered on exit
Table_put_batch(items, o) ==
    IF Len(items) = 0 THEN [Raised("") EXCEPT !.val = None]
    ELSE StoreCall([EmptyRequest EXCEPT !.op = "batch_write_item",
                                        !.Items = remove_nones_each(items)], o)

\* DynamoTable3.delete_item
Table_delete_item(kwargs, o) ==
    StoreCall([EmptyRequest EXCEPT !.op = "delete_item", !.Key = Some(ToDict(kwargs, 1, <<>>))], o)

\* DynamoTable3.get
Table_get(consistent, kwargs, o) ==
    IF \E i \in 1..Len(kwargs) : kwargs[i].key \notin dynamorm_fields
    THEN Raised("InvalidSchemaField")
    ELSE StoreCall([EmptyRequest EXCEPT !.op = "get_item", !.Key = Some(ToDict(kwargs, 1, <<>>)),
                                        !.ConsistentRead = IF consistent THEN Some(TRUE) ELSE None],
                   o)

(***************************************************************************)
(* DynamoTable3.update.                                                    *)
(***************************************************************************)
\* str.split(sep, 1)
SplitOnce(s, sep) ==
    IF \E i \in 1..Len(s) : s[i] = sep
    THEN LET i == CHOOSE i \in 1..Len(s) : s[i] = sep /\ \A j \in 1..(i - 1) : s[j] # sep
         IN  <<SubSeq(s, 1, i - 1), SubSeq(s, i + 1, Len(s))>>
    ELSE <<s>>

\* "key, function = key.split('__', 1)", function None on ValueError
UpdateKey(full_key) ==
    IF Len(SplitOnce(full_key, "__")) = 2
    THEN [key |-> SplitOnce(full_key, "__")[1], function |-> Some(SplitOnce(full_key, "__")[2])]
    ELSE [key |-> full_key, function |-> None]

uk(key) == <<"#uk_">> \o key
uv(key) == <<":uv_">> \o key

UPDATE_FUNCTIONS == {<<"append">>, <<"plus">>, <<"minus">>, <<"if_not_exists">>}

\* UPDATE_FUNCTION_TEMPLATES[function].format(key)
UPDATE_FUNCTION_TEMPLATES(function, key) ==
    IF function = None THEN uk(key) \o <<" = ">> \o uv(key)
    ELSE IF function[1] = <<"append">>
         THEN uk(key) \o <<" = list_append(">> \o uk(key) \o <<", ">> \o uv(key) \o <<")">>
    ELSE IF function[1] = <<"plus">> THEN uk(key) \o <<" = ">> \o uk(key) \o <<" + ">> \o uv(key)
    ELSE IF function[1] = <<"minus">> THEN uk(key) \o <<" = ">> \o uk(key) \o <<" - ">> \o uv(key)
    ELSE uk(key) \o <<" = if_not_exists(">> \o uk(key) \o <<", ">> \o uv(key) \o <<")">>

NoUpdate ==
    [err |-> "", update_key |-> <<>>, update_fields |-> <<>>, expr_names |-> <<>>,
     expr_vals |-> <<>>]

\* variant of UpdateEntry: key fields are compiled into the expression too
UpdateEntry_no_key(u, kf, value) ==
    IF kf.key \notin dynamorm_fields THEN [u EXCEPT !.err = "InvalidSchemaField"]
    ELSE IF kf.function # None /\ kf.function[1] \notin UPDATE_FUNCTIONS
    THEN [u EXCEPT !.err = "KeyError"]
    ELSE [u EXCEPT !.update_fields = Append(@, UPDATE_FUNCTION_TEMPLATES(kf.function, kf.key)),
                   !.expr_names = DictSet(@, uk(kf.key), kf.key),
                   !.expr_vals = DictSet(@, uv(kf.key), value)]

\* the body of the loop over kwargs
UpdateEntry(u, kf, value) ==
    IF kf.key \notin dynamorm_fields THEN [u EXCEPT !.err = "InvalidSchemaField"]
    ELSE IF kf.key \in {hash_key} \cup {range_key[i] : i \in 1..Len(range_key)}
    THEN [u EXCEPT !.update_key = DictSet(@, kf.key, value)]
    ELSE IF kf.function # None /\ kf.function[1] \notin UPDATE_FUNCTIONS
    THEN [u EXCEPT !.err = "KeyError"]
    ELSE [u EXCEPT !.update_fields = Append(@, UPDATE_FUNCTION_TEMPLATES(kf.function, kf.key)),
                   !.expr_names = DictSet(@, uk(kf.key), kf.key),
                   !.expr_vals = DictSet(@, uv(kf.key), value)]

\* "for key, value in six.iteritems(kwargs)", in insertion order
RECURSIVE UpdateLoop(_, _, _)
UpdateLoop(kwargs, i, u) ==
    IF i > Len(kwargs) \/ u.err # "" THEN u
    ELSE UpdateLoop(kwargs, i + 1, UpdateEntry(u, UpdateKey(kwargs[i].key), kwargs[i].value))

update_item_kwargs(u, condition_expression) ==
    [EmptyRequest EXCEPT !.op = "update_item",
                         !.Key = Some(u.update_key),
                         !.UpdateExpression = Some(<<"SET ">> \o Join(u.update_fields, ", ")),
                         !.ExpressionAttributeNames = Some(u.expr_names),
                         !.ExpressionAttributeValues = Some(u.expr_vals),
                         !.ConditionExpression = condition_expression]

\* variant of update_call: the store error is passed on as it came
update_call_raw(req, o) == StoreCall(req, o)

\* "try: return self.table.update_item(...) except ClientError ..."
update_call(req, o) == Translate(StoreCall(req, o), "ConditionFailed")

\* update after the loop u, with conditions a mapping compiled to q
update_send(u, q, o) ==
    IF u.err # "" THEN Raised(u.err)
    ELSE IF q.err # "" THEN Raised(q.err)
    ELSE update_call(update_item_kwargs(u, q.expression), o)

Table_update(conditions, kwargs, o) == update_send(UpdateLoop(kwargs, 1, NoUpdate), Q(conditions), o)

(***************************************************************************)
(* The store: a result set of NumItems items (item i is the number i),     *)
(* returned PageSize items at a time, or Limit items when that is less.    *)
(* The continuation cursor is the position of the last item evaluated.     *)
(* When eager, the store also returns a cursor with a full page that ends  *)
(* exactly at the end of the result set (the following page is empty).     *)
(* A Select=COUNT request is answered with a Count and no Items.           *)
(***************************************************************************)
Respond(st, req) ==
    LET start == IF req.ExclusiveStartKey = None THEN 0 ELSE req.ExclusiveStartKey[1]
        cap   == IF req.Limit = None THEN st.PageSize ELSE Min(st.PageSize, req.Limit[1])
        end   == IF start >= st.NumItems THEN start ELSE Min(start + cap, st.NumItems)
        more  == end < st.NumItems \/ (st.eager /\ end = st.NumItems /\ end - start = cap)
    IN  [hasItems |-> req.Select = None,
         Items |-> IF req.Select = None THEN [i \in 1..(end - start) |-> start + i] ELSE <<>>,
         Count |-> end - start,
         LastEvaluatedKey |-> IF more THEN Some(end) ELSE None]

(***************************************************************************)
(* The ReadIterator.                                                       *)
(***************************************************************************)
VARIABLES
    METHOD_NAME,     \* "query" (QueryIterator) or "scan" (ScanIterator)
    args,            \* self.args: positional Q objects
    kwargs,          \* self.kwargs without the query_kwargs / scan_kwargs entry
    dynamo_kwargs,   \* self.dynamo_kwargs, the dict under that entry
    _partial,
    _recursive,
    last,            \* self.last: None or the last LastEvaluatedKey
    resp,            \* self.resp: None or the current page
    index,           \* self.index
    store,           \* the store behind the model's table
    lastOp,          \* the method called last
    ret,             \* what that call returned or raised
    attrs,           \* the argument of the last specific_attributes call
    lastReq,         \* the last request sent to the store
    out,             \* the items next() returned since construction or the last again()
    runReqs,         \* the requests next() issued since construction or the last again()
    runStart,        \* the ExclusiveStartKey of the first of those requests
    stopped,         \* next() has signalled end of sequence since then
    againAt,         \* self.index when again() was last called
    startCalled,     \* the caller has called start()
    recursiveCalled, \* the caller has called recursive()
    nreq,            \* requests sent to the store
    nmut             \* configuration calls (mutators and count) made

itVars == <<METHOD_NAME, args, kwargs, dynamo_kwargs, _partial, _recursive, last, resp, index,
            store, lastOp, ret, attrs, lastReq, out, runReqs, runStart, stopped, againAt,
            startCalled, recursiveCalled, nreq, nmut>>

Entry(key, value) == [key |-> key, value |-> value]

K_id    == Entry(<<"id">>, IntV(1))
K_ts_gt == Entry(<<"ts", "__", "gt">>, IntV(5))
K_color == Entry(<<"color">>, IntV(2))

\* the iterators constructed: [method, args, kwargs, IndexName]
Constructions ==
    { [m |-> "query", args |-> <<>>, kwargs |-> <<K_id, K_ts_gt, K_color>>, ix |-> None],
      [m |-> "query", args |-> <<>>, kwargs |-> <<K_color>>, ix |-> None],
      [m |-> "scan",  args |-> << <<Leaf([cls |-> "Attr", name |-> <<"tag">>], "exists", <<>>)>> >>,
                      kwargs |-> <<K_color>>, ix |-> None] }

Stores == [NumItems : 0..MaxItems, PageSize : 1..MaxPage, eager : BOOLEAN]

NoRet == [kind |-> "none", val |-> 0, err |-> "", partial |-> FALSE]
RetSelf == [NoRet EXCEPT !.kind = "self"]
RetStop == [NoRet EXCEPT !.kind = "stop"]
RetErr(e) == [NoRet EXCEPT !.kind = "error", !.err = e]
RetItem(raw, p) == [NoRet EXCEPT !.kind = "item", !.val = raw, !.partial = p]
RetCount(n) == [NoRet EXCEPT !.kind = "count", !.val = n]

ItInit ==
    /\ \E c \in Constructions :
          /\ METHOD_NAME = c.m
          /\ args = c.args
          /\ kwargs = c.kwargs
          /\ dynamo_kwargs = [EmptyKwargs EXCEPT !.IndexName = c.ix]
    /\ store \in Stores
    /\ _partial = FALSE
    /\ _recursive = FALSE
    /\ last = None
    /\ resp = None
    /\ index = -1
    /\ lastOp = "init"
    /\ ret = NoRet
    /\ attrs = <<>>
    /\ lastReq = None
    /\ out = <<>>
    /\ runReqs = 0
    /\ runStart = None
    /\ stopped = FALSE
    /\ againAt = -1
    /\ startCalled = FALSE
    /\ recursiveCalled = FALSE
    /\ nreq = 0
    /\ nmut = 0

\* getattr(self.model.Table, self.METHOD_NAME)(*self.args, **self.kwargs)
get_resp(m, a, kw, dk) ==
    IF m = "query" THEN Table_query(a, kw, dk) ELSE Table_scan(a, kw, dk)

\* variant of LimitOverride: the Limit check left out
LimitOverride_absent(dk, rec) == rec

\* "If a Limit is specified we must not operate in recursive mode"
LimitOverride(dk, rec) == IF dk.Limit # None THEN FALSE ELSE rec

\* variants of Done: the recursive flag never honoured / always assumed
Done_never_recursive(rec, l) == TRUE
Done_always_recursive(rec, l) == l = None

\* "we're done as long as we're not in recursive mode ... or the resp didn't contain a last key"
Done(rec, l) == ~rec \/ l = None

\* self.index after again()
again_index == 0 - 1

\* start(last): dynamo_kwargs['ExclusiveStartKey'] = last
start_kwargs(dk, k) == [dk EXCEPT !.ExclusiveStartKey = Some(k)]

\* variant of again_kwargs: the reset does not resume from self.last
again_kwargs_restart(dk, l) == dk

\* again(): the dynamo_kwargs it leaves, given self.last
again_kwargs(dk, l) == IF l # None THEN start_kwargs(dk, l[1]) ELSE dk

(***************************************************************************)
(* __next__ on the iterator state s = [resp, last, index, rec, dk, reqs],  *)
(* reqs being the requests sent during the call; the result adds ret.      *)
(***************************************************************************)
RECURSIVE next_(_, _, _, _, _)

\* the rest of __next__ once index is incremented: s has the page it indexes
next_item(m, a, kw, st, s, page) ==
    IF s.index = page.Count
    THEN IF Done(s.rec, s.last)
         THEN s @@ [ret |-> RetStop]
         ELSE next_(m, a, kw, st,
                    [s EXCEPT !.resp = None, !.index = again_index,
                              !.dk = again_kwargs(s.dk, s.last)])
    ELSE IF ~page.hasItems THEN s @@ [ret |-> RetErr("KeyError")]
    ELSE IF s.index + 1 > Len(page.Items) THEN s @@ [ret |-> RetErr("IndexError")]
    ELSE s @@ [ret |-> RetItem(page.Items[s.index + 1], FALSE)]

\* the Limit check and "self.index += 1"
next_index(m, a, kw, st, s) ==
    next_item(m, a, kw, st,
              [s EXCEPT !.rec = LimitOverride(s.dk, s.rec), !.index = s.index + 1],
              s.resp[1])

\* "self.resp = self._get_resp()" and "self.last = self.resp.get('LastEvaluatedKey')"
next_page(s, g, page) ==
    [s EXCEPT !.dk = g.kept, !.resp = Some(page), !.last = page.LastEvaluatedKey,
              !.reqs = Append(s.reqs, g.req[1])]

\* "if self.resp is None", g being what _get_resp does
next_fetch(m, a, kw, st, s, g) ==
    IF g.err # "" THEN [s EXCEPT !.dk = g.kept] @@ [ret |-> RetErr(g.err)]
    ELSE next_index(m, a, kw, st, next_page(s, g, Respond(st, g.req[1])))

next_(m, a, kw, st, s) ==
    IF s.resp # None THEN next_index(m, a, kw, st, s)
    ELSE next_fetch(m, a, kw, st, s, get_resp(m, a, kw, s.dk))

(***************************************************************************)
(* Direct calls of Table.query.                                            *)
(***************************************************************************)
VARIABLES
    call,     \* the arguments of a direct Table.query call, and whether it was made
    result,   \* what Table.query did with them
    scanned   \* what Table.scan did with the same arguments, and whether it was called

qVars == <<call, result, scanned>>

NoCall == [made |-> FALSE, args |-> <<>>, kwargs |-> <<>>, IndexName |-> None]
NoResult == [err |-> "", kept |-> EmptyKwargs, req |-> None]
NoScan == [made |-> FALSE, err |-> "", req |-> None]

QInit ==
    /\ call = NoCall
    /\ result = NoResult
    /\ scanned = NoScan

(***************************************************************************)
(* Direct calls of the write and point-read operations.                    *)
(***************************************************************************)
VARIABLES
    fcall,    \* the operation called and its arguments
    fres      \* how the call ended, and the requests it sent

fVars == <<fcall, fres>>

NoFCall == [op |-> "", item |-> <<>>, items |-> <<>>, kwargs |-> <<>>, conditions |-> <<>>,
            cond |-> None, consistent |-> FALSE]
NoFRes == [made |-> FALSE, outcome |-> "", err |-> "", code |-> "", val |-> None, reqs |-> <<>>]

FInit ==
    /\ fcall = NoFCall
    /\ fres = NoFRes

(***************************************************************************)
(* DynamoTable3.get_batch, a generator: its position is pc ("keys" before  *)
(* the first next(), "request" at batch_get_item, "items" in the for loop  *)
(* over the response, "done" after the break, "error" after a raise).      *)
(***************************************************************************)
VARIABLES
    bcall,              \* the arguments keys, consistent, attrs
    pc,                 \* the position of the generator ("" when not called)
    batch_get_kwargs,   \* the request about to be sent or sent last
    response,           \* the response being iterated
    item_index,         \* items of the response yielded so far
    yielded,            \* the items yielded since the call
    attempts            \* batch_get_item calls made, counted up to MaxAttempts

bVars == <<bcall, pc, batch_get_kwargs, response, item_index, yielded, attempts>>

NoBatch == [Keys |-> <<>>, ConsistentRead |-> None, ProjectionExpression |-> None]
NoResponse == [Responses |-> <<>>, UnprocessedKeys |-> None]

BInit ==
    /\ bcall = [keys |-> <<>>, consistent |-> FALSE, attrs |-> None]
    /\ pc = ""
    /\ batch_get_kwargs = NoBatch
    /\ response = NoResponse
    /\ item_index = 0
    /\ yielded = <<>>
    /\ attempts = 0

(***************************************************************************)
(* Direct calls of Q and get_expression.                                   *)
(***************************************************************************)
VARIABLES
    xcall,    \* the function called ("Q" or "get_expression") and its arguments
    xres      \* the condition it returned, or the error it raised

xVars == <<xcall, xres>>

NoXCall == [fn |-> "", key |-> <<>>, cls |-> "", op |-> <<>>, value |-> NoneV]
NoXRes == [made |-> FALSE, err |-> "", leaf |-> <<>>]

XInit ==
    /\ xcall = NoXCall
    /\ xres = NoXRes

(***************************************************************************)
(* The model layer (src/dynamorm/model.py): one instance of a DynaModel    *)
(* whose Schema declares Integer fields id, ts, count, size and String     *)
(* fields color, name, tags.  A dict is a function from field names to     *)
(* values.  A str that holds one digit is given by its character code, so  *)
(* that int("5") = 5 is computed.                                          *)
(***************************************************************************)
IntegerFields == {<<"id">>, <<"ts">>, <<"count">>, <<"size">>}

\* int(value) succeeds
IsInt(v) == v.t = "int" \/ (v.t = "str" /\ Len(v.a) = 1 /\ v.a[1] \in 48..57)

\* int(value)
ToInt(v) == IF v.t = "str" THEN IntV(v.a[1] - 48) ELSE v

\* what a field makes of a value, when loading and when dumping
FieldOk(k, v) == k \in IntegerFields => IsInt(v)
FieldValue(k, v) == IF k \in IntegerFields THEN ToInt(v) ELSE v

Restrict(d, ks) == [k \in ks |-> d[k]]

\* dict.update
dict_update(d, e) == [k \in DOMAIN d \cup DOMAIN e |-> IF k \in DOMAIN e THEN e[k] ELSE d[k]]

\* cls().load(obj): a key the schema does not declare is an error, is left
\* out or is kept, as the schema's "unknown" option says
Schema_load(obj, unk) ==
    IF \E k \in DOMAIN obj \cap dynamorm_fields : ~FieldOk(k, obj[k])
    THEN [err |-> "ValidationError", data |-> <<>>]
    ELSE IF unk = "raise" /\ DOMAIN obj \ dynamorm_fields # {}
    THEN [err |-> "ValidationError", data |-> <<>>]
    ELSE [err |-> "",
          data |-> [k \in {x \in DOMAIN obj : x \in dynamorm_fields \/ unk = "include"} |->
                        FieldValue(k, obj[k])]]

\* cls(partial=partial).dump(obj): the declared fields obj has
Schema_dump(obj) ==
    IF \E k \in DOMAIN obj \cap dynamorm_fields : ~FieldOk(k, obj[k])
    THEN [err |-> "ValueError", data |-> <<>>]
    ELSE [err |-> "", data |-> [k \in DOMAIN obj \cap dynamorm_fields |-> FieldValue(k, obj[k])]]

\* "if partial and native: ... data[name] = None"
fill_nones(data) ==
    [k \in dynamorm_fields \cup DOMAIN data |-> IF k \in DOMAIN data THEN data[k] ELSE NoneV]

dynamorm_validate(obj, partial_, native, unk) ==
    IF ~native THEN Schema_dump(obj)
    ELSE IF Schema_load(obj, unk).err # "" \/ ~partial_ THEN Schema_load(obj, unk)
    ELSE [err |-> "", data |-> fill_nones(Schema_load(obj, unk).data)]

\* six.iteritems(d), in the order the fields were inserted
FieldOrder == << <<"id">>, <<"ts">>, <<"count">>, <<"color">>, <<"legacy">> >>

RECURSIVE ItemsFrom(_, _)
ItemsFrom(d, i) ==
    IF i > Len(FieldOrder) THEN <<>>
    ELSE (IF FieldOrder[i] \in DOMAIN d THEN <<Entry(FieldOrder[i], d[FieldOrder[i]])>>
          ELSE <<>>) \o ItemsFrom(d, i + 1)

iteritems(d) == ItemsFrom(d, 1)

\* DynaModel._add_hash_key_values
_add_hash_key_values(self, hash_dict) ==
    IF range_key # None /\ range_key[1] \in DOMAIN self
    THEN dict_update(hash_dict, Restrict(self, {hash_key, range_key[1]}))
    ELSE dict_update(hash_dict, Restrict(self, {hash_key}))

\* DynaModel.to_dict before validation: the declared fields the instance has
to_dict(self) == Restrict(self, DOMAIN self \cap dynamorm_fields)

\* the store after an update_item that sets the fields of kw, and the
\* Attributes it returns for ReturnValues ALL_NEW or UPDATED_NEW
StoreUpdate(it, kw) == dict_update(it, kw)
ReturnedAttributes(it, kw, return_all) ==
    IF return_all THEN StoreUpdate(it, kw)
    ELSE Restrict(kw, DOMAIN kw \ (table_attribute_fields))

\* the state of an instance operation: the instance, the store's item, the
\* signals sent and the store requests made in order, the exception raised
Operation(self, vd, it) ==
    [instance |-> self, validated |-> vd, stored |-> it, trace |-> <<>>, err |-> "",
     Attributes |-> <<>>, reqs |-> <<>>]

Signal(s, name) == [s EXCEPT !.trace = Append(@, name)]
Raise(s, e) == [s EXCEPT !.err = e]
Sent(s, r) ==
    [s EXCEPT !.reqs = @ \o r.reqs,
              !.trace = @ \o [i \in 1..Len(r.reqs) |-> r.reqs[i].op]]

\* DynaModel.update_item: the kwargs are dumped, then passed to Table.update
Model_update_item(conditions, kw, o) ==
    IF Schema_dump(kw).err # "" THEN Raised(Schema_dump(kw).err)
    ELSE Table_update(conditions, iteritems(dict_update(kw, Schema_dump(kw).data)), o)

\* "for key, _ in six.iteritems(resp['Attributes']): if hasattr(partial_model, key)"
update_loop(s, returned, partial_model) ==
    [s EXCEPT !.instance = dict_update(@, Restrict(partial_model,
                                                   DOMAIN returned \cap DOMAIN partial_model)),
              !.validated = dict_update(@, Restrict(partial_model,
                                                    DOMAIN returned \cap DOMAIN partial_model)),
              !.Attributes = returned]

\* "partial_model = self.new_from_raw(resp['Attributes'], partial=True)", the
\* loop, and post_update
update_locals(s, returned, loaded) ==
    IF loaded.err # "" THEN Raise(s, loaded.err)
    ELSE Signal(update_loop(s, returned, loaded.data), "post_update")

\* DynaModel.update from "resp = self.update_item(...)" on, r being its outcome
update_after(s, r, kw, return_all, unk) ==
    IF r.err # "" THEN Raise(Sent(s, r), r.err)
    ELSE update_locals([Sent(s, r) EXCEPT !.stored = StoreUpdate(s.stored, kw)],
                       ReturnedAttributes(s.stored, kw, return_all),
                       dynamorm_validate(ReturnedAttributes(s.stored, kw, return_all), TRUE,
                                         TRUE, unk))

\* DynaModel.update(conditions, return_all=return_all, **kw); raises: a
\* subscriber of pre_update raises
DynaModel_update(s, conditions, return_all, kw, raises, o, unk) ==
    IF raises THEN Raise(Signal(s, "pre_update"), "SubscriberError")
    ELSE IF DOMAIN kw = {} THEN Signal(Signal(s, "pre_update"), "post_update")
    ELSE update_after(Signal(s, "pre_update"),
                      Model_update_item(conditions, _add_hash_key_values(s.instance, kw), o),
                      Schema_dump(_add_hash_key_values(s.instance, kw)).data,
                      return_all, unk)

\* save(partial=False) from the put on: "self._validated_data = as_dict", post_save
save_after(s, as_dict, r) ==
    IF r.err # "" THEN Raise(Sent(s, r), r.err)
    ELSE Signal([Sent(s, r) EXCEPT !.stored = ToDict(r.reqs[1].Item[1], 1, <<>>),
                                   !.validated = as_dict],
                "post_save")

\* "if unique: resp = self.put_unique(as_dict) else: resp = self.put(as_dict)"
save_put(s, as_dict, unique, o) ==
    save_after(s, as_dict,
               IF unique THEN Table_put_unique(iteritems(Schema_dump(as_dict).data), None, o)
               ELSE Table_put(iteritems(Schema_dump(as_dict).data), None, o))

\* "updates = dict((k, getattr(self, k)) for k, v in ... if getattr(self, k) != v)"
save_updates(self, vd) == Restrict(self, {k \in DOMAIN vd : self[k] # vd[k]})

\* DynaModel.save(partial=partial_, unique=unique, return_all=return_all)
DynaModel_save(s, partial_, unique, return_all, raises, o, unk) ==
    IF partial_
    THEN DynaModel_update(s, <<>>, return_all, save_updates(s.instance, s.validated), raises,
                          o, unk)
    ELSE IF raises THEN Raise(Signal(s, "pre_save"), "SubscriberError")
    ELSE IF dynamorm_validate(to_dict(s.instance), FALSE, TRUE, unk).err # ""
    THEN Raise(Signal(s, "pre_save"), "ValidationError")
    ELSE save_put(Signal(s, "pre_save"),
                  dynamorm_validate(to_dict(s.instance), FALSE, TRUE, unk).data, unique, o)

\* variant of delete_after: post_delete is sent whatever the store answered
delete_after_always(s, r) ==
    Signal(IF r.err # "" THEN Raise(Sent(s, r), r.err) ELSE [Sent(s, r) EXCEPT !.stored = <<>>],
           "post_delete")

\* DynaModel.delete from the delete_item on
delete_after(s, r) ==
    IF r.err # "" THEN Raise(Sent(s, r), r.err)
    ELSE Signal([Sent(s, r) EXCEPT !.stored = <<>>], "post_delete")

\* DynaModel.delete
DynaModel_delete(s, raises, o) ==
    IF raises THEN Raise(Signal(s, "pre_delete"), "SubscriberError")
    ELSE delete_after(Signal(s, "pre_delete"),
                      Table_delete_item(iteritems(_add_hash_key_values(s.instance, <<>>)), o))

VARIABLES
    instance,          \* the attributes of the instance
    _validated_data,   \* the values recorded at the last load or full save
    stored,            \* the item the store holds under the instance's key
    unknown,           \* the Schema's treatment of undeclared keys
    mcall,             \* the last instance operation and its arguments
    mtrace,            \* the signals sent and store requests made by it, in order
    mres               \* how it ended: exception, Attributes returned, requests

mVars == <<instance, _validated_data, stored, unknown, mcall, mtrace, mres>>

NoMCall == [op |-> "", partial |-> FALSE, raises |-> FALSE, updates |-> <<>>]
NoMRes == [err |-> "", Attributes |-> <<>>, reqs |-> <<>>]

MInit ==
    /\ instance = <<>>
    /\ _validated_data = <<>>
    /\ stored = <<>>
    /\ unknown = "exclude"
    /\ mcall = NoMCall
    /\ mtrace = <<>>
    /\ mres = NoMRes

(***************************************************************************)
(* DynamoTable3.get_table called from several threads.  A thread runs the  *)
(* method statement by statement; another thread may run between any two   *)
(* statements.                                                             *)
(***************************************************************************)
MaxThreads == 3    \* threads that call get_table
MaxCalls == 2      \* get_table calls per thread

Threads == 1..MaxThreads

VARIABLES
    _table,      \* cls._table: None while the attribute is missing, else the handle
    gpc,         \* the statement each thread is at
    handle,      \* the handle each thread has created and not yet assigned
    returned,    \* the handle each thread's last call returned
    created,     \* the handles created so far: they are numbered 1..created
    gcalls       \* the calls each thread has completed

gVars == <<_table, gpc, handle, returned, created, gcalls>>

GInit ==
    /\ _table = None
    /\ gpc = [t \in Threads |-> "idle"]
    /\ handle = [t \in Threads |-> None]
    /\ returned = [t \in Threads |-> None]
    /\ created = 0
    /\ gcalls = [t \in Threads |-> 0]

(***************************************************************************)
(* DynamoTable3.update_table.  The descriptor is the table class: its      *)
(* capacity (None when read/write are not set), its stream view type and   *)
(* its indexes.  The store's table has a status, a capacity, a stream      *)
(* setting, global indexes with a status and a capacity, and local         *)
(* indexes.  The method works on the description it loaded last (table)    *)
(* and sleeps between loads, while the store completes what it was asked.  *)
(* Durations are counted in half time-units: 1 is 0.5, 40 is 20.           *)
(***************************************************************************)
MaxSleeps == 8    \* sleeps while waiting for one table or index
MaxOps == 3       \* the value _update_table_ops may reach

\* the order of table.global_secondary_indexes and of self.indexes
IndexOrder == <<"by_color", "old", "by_ts">>

GlobalIndex == [name |-> "by_color", kind |-> "GlobalIndex", capacity |-> Some(5)]
LocalIndex == [name |-> "by_ts", kind |-> "LocalIndex", capacity |-> None]

Descriptors ==
    { [capacity |-> c, stream |-> s, indexes |-> ix] :
          c \in {None, Some(5)}, s \in {None, Some("NEW_IMAGE")},
          ix \in SUBSET {GlobalIndex, LocalIndex} }

IndexNamesOf(d) == { ix.name : ix \in d.indexes }
IndexNamed(d, n) == CHOOSE ix \in d.indexes : ix.name = n

\* _index_status(table, index_name): None once the index is gone
_index_status(tbl, index_name) ==
    IF index_name \in DOMAIN tbl.gsi THEN Some(tbl.gsi[index_name].status) ELSE None

\* the status the callback of a thing returns
thing_status(tbl, thing) ==
    IF thing = "table" THEN Some(tbl.status) ELSE _index_status(tbl, thing)

\* ok_statuses
ok_statuses(thing) ==
    IF thing = "table" THEN {"CREATING", "UPDATING"} ELSE {"CREATING", "UPDATING", "DELETING"}

\* variant of next_wait_duration: the duration doubles without a ceiling
next_wait_duration_unbounded(d) == d * 2

\* "if wait_duration < 20: wait_duration = min(20, wait_duration * 2)"
next_wait_duration(d) == IF d < 40 THEN Min(40, d * 2) ELSE d

\* the names of table.global_secondary_indexes, in order
RECURSIVE IndexList(_, _)
IndexList(tbl, i) ==
    IF i > Len(IndexOrder) THEN <<>>
    ELSE (IF IndexOrder[i] \in DOMAIN tbl.gsi THEN <<IndexOrder[i]>> ELSE <<>>)
         \o IndexList(tbl, i + 1)

\* the first global index of the table that the descriptor does not declare
RECURSIVE FirstUndeclared(_, _, _)
FirstUndeclared(d, tbl, i) ==
    IF i > Len(IndexOrder) THEN None
    ELSE IF IndexOrder[i] \in DOMAIN tbl.gsi /\ IndexOrder[i] \notin IndexNamesOf(d)
    THEN Some(IndexOrder[i])
    ELSE FirstUndeclared(d, tbl, i + 1)

\* the body of "for index in six.itervalues(self.indexes)" for one index:
\* what the loop does at the first index that needs something
IndexStep(d, tbl, n) ==
    IF n \in DOMAIN tbl.gsi
    THEN IF IndexNamed(d, n).capacity # None
            /\ IndexNamed(d, n).capacity[1] # tbl.gsi[n].capacity
         THEN [do |-> "raise", err |-> "TypeError", name |-> n]
         ELSE [do |-> "next", err |-> "", name |-> n]
    ELSE [do |-> "Create", err |-> "", name |-> n]

RECURSIVE IndexLoop(_, _, _)
IndexLoop(d, tbl, i) ==
    IF i > Len(IndexOrder) THEN [do |-> "return", err |-> "", name |-> ""]
    ELSE IF IndexOrder[i] \notin IndexNamesOf(d) THEN IndexLoop(d, tbl, i + 1)
    ELSE IF IndexStep(d, tbl, IndexOrder[i]).do = "next" THEN IndexLoop(d, tbl, i + 1)
    ELSE IndexStep(d, tbl, IndexOrder[i])

\* update_table after wait_for_active: the one update it performs, the
\* exception it raises, or "return"
Decide(d, tbl) ==
    IF d.capacity # None /\ d.capacity[1] # tbl.capacity
    THEN [do |-> "ProvisionedThroughput", err |-> "", name |-> ""]
    ELSE IF d.stream # tbl.stream
    THEN [do |-> "StreamSpecification", err |-> "", name |-> ""]
    ELSE IF FirstUndeclared(d, tbl, 1) # None
    THEN [do |-> "Delete", err |-> "", name |-> FirstUndeclared(d, tbl, 1)[1]]
    ELSE IndexLoop(d, tbl, 1)

\* the store's table once it has accepted the update
Accepted(d, rem, upd) ==
    IF upd.do = "ProvisionedThroughput"
    THEN [rem EXCEPT !.capacity = d.capacity[1], !.status = "UPDATING"]
    ELSE IF upd.do = "StreamSpecification"
    THEN [rem EXCEPT !.stream = d.stream, !.status = "UPDATING"]
    ELSE IF upd.do = "Delete"
    THEN [rem EXCEPT !.gsi = [@ EXCEPT ![upd.name] = [@ EXCEPT !.status = "DELETING"]]]
    ELSE [rem EXCEPT !.gsi = DictSet(@, upd.name,
                                    [status |-> "CREATING",
                                     capacity |-> IF IndexNamed(d, upd.name).capacity = None
                                                  THEN 0
                                                  ELSE IndexNamed(d, upd.name).capacity[1]])]

\* "try: self._update_table_ops += 1 except TypeError: self._update_table_ops = 0"
count_op(ops) == IF ops = None THEN Some(0) ELSE Some(ops[1] + 1)

\* the store's table matches the descriptor: same capacity, same stream
\* setting, every declared index present, no undeclared global index
Matches(d, rem) ==
    /\ d.capacity # None => d.capacity[1] = rem.capacity
    /\ d.stream = rem.stream
    /\ \A ix \in d.indexes :
           IF ix.kind = "LocalIndex" THEN ix.name \in rem.lsi
           ELSE ix.name \in DOMAIN rem.gsi /\ rem.gsi[ix.name].capacity = ix.capacity[1]
    /\ DOMAIN rem.gsi \subseteq IndexNamesOf(d)

VARIABLES
    descriptor,          \* the table class
    remote,              \* the table in the store
    table,               \* the description the method loaded last
    _update_table_ops,   \* self._update_table_ops
    upc,                 \* "idle", "wait" (in wait_for_active) or "update"
    things,              \* the table and the indexes wait_for_active goes through
    thing,               \* the position in things of the one awaited
    wait_duration,       \* _wait's wait_duration
    sleeps,              \* the durations slept for the thing awaited, in order
    issued,              \* update requests issued by the call in progress, or the last
    at_entry,            \* the store's table when that call began
    ures                 \* how the last call ended

uVars == <<descriptor, remote, table, _update_table_ops, upc, things, thing, wait_duration,
           sleeps, issued, at_entry, ures>>

NoTable == [status |-> "ACTIVE", capacity |-> 5, stream |-> None, gsi |-> <<>>, lsi |-> {}]
NoURes == [done |-> FALSE, err |-> "", ret |-> 0, active |-> TRUE]

UInit ==
    /\ descriptor = [capacity |-> None, stream |-> None, indexes |-> {}]
    /\ remote = NoTable
    /\ table = NoTable
    /\ _update_table_ops = None
    /\ upc = "idle"
    /\ things = <<>>
    /\ thing = 0
    /\ wait_duration = 1
    /\ sleeps = <<>>
    /\ issued = 0
    /\ at_entry = NoTable
    /\ ures = NoURes

oldVars == <<itVars, qVars, fVars, bVars>>
\* the variables an operation of one group leaves alone
notX == <<mVars, gVars, uVars>>
notM == <<xVars, gVars, uVars>>
notG == <<xVars, mVars, uVars>>
notU == <<xVars, mVars, gVars>>
restVars == <<xVars, mVars, gVars, uVars>>

RInit == XInit /\ MInit /\ GInit /\ UInit

IterState == [resp |-> resp, last |-> last, index |-> index, rec |-> _recursive,
              dk |-> dynamo_kwargs, reqs |-> <<>>]

fixed == <<METHOD_NAME, args, kwargs, store, call, result, scanned, fcall, fres, bVars,
           restVars>>

\* ReadIterator.__next__
next ==
    LET r == next_(METHOD_NAME, args, kwargs, store, IterState)
    IN  /\ nreq + Len(r.reqs) <= MaxReqs
        /\ resp # None => index < resp[1].Count + MaxOver
        /\ resp' = r.resp
        /\ last' = r.last
        /\ index' = r.index
        /\ _recursive' = r.rec
        /\ dynamo_kwargs' = r.dk
        /\ ret' = IF r.ret.kind = "item" THEN RetItem(r.ret.val, _partial) ELSE r.ret
        /\ lastOp' = "next"
        /\ lastReq' = IF r.reqs # <<>> THEN Some(r.reqs[Len(r.reqs)]) ELSE lastReq
        /\ out' = IF r.ret.kind = "item" THEN Append(out, r.ret.val) ELSE out
        /\ runReqs' = runReqs + Len(r.reqs)
        /\ runStart' = IF runReqs = 0 /\ r.reqs # <<>>
                       THEN Some(r.reqs[1].ExclusiveStartKey) ELSE runStart
        /\ stopped' = (stopped \/ r.ret.kind = "stop")
        /\ nreq' = nreq + Len(r.reqs)
        /\ UNCHANGED <<fixed, _partial, attrs, againAt, startCalled, recursiveCalled, nmut>>

\* what a mutator does besides its assignment: it returns self
Returned(op) ==
    /\ nmut' = nmut + 1
    /\ lastOp' = op
    /\ ret' = RetSelf
    /\ UNCHANGED <<fixed, last, resp, index, lastReq, out, runReqs, runStart, stopped, againAt,
                   nreq>>

\* ReadIterator.limit
limit(n) ==
    /\ Returned("limit")
    /\ dynamo_kwargs' = [dynamo_kwargs EXCEPT !.Limit = Some(n)]
    /\ UNCHANGED <<_partial, _recursive, attrs, startCalled, recursiveCalled>>

\* ReadIterator.start
start(k) ==
    /\ Returned("start")
    /\ dynamo_kwargs' = start_kwargs(dynamo_kwargs, k)
    /\ startCalled' = TRUE
    /\ UNCHANGED <<_partial, _recursive, attrs, recursiveCalled>>

\* ReadIterator.consistent
consistent ==
    /\ Returned("consistent")
    /\ dynamo_kwargs' = [dynamo_kwargs EXCEPT !.ConsistentRead = Some(TRUE)]
    /\ UNCHANGED <<_partial, _recursive, attrs, startCalled, recursiveCalled>>

\* QueryIterator.reverse
reverse ==
    /\ METHOD_NAME = "query"
    /\ Returned("reverse")
    /\ dynamo_kwargs' = [dynamo_kwargs EXCEPT !.ScanIndexForward = Some(FALSE)]
    /\ UNCHANGED <<_partial, _recursive, attrs, startCalled, recursiveCalled>>

\* ReadIterator.recursive
recursive ==
    /\ Returned("recursive")
    /\ _recursive' = TRUE
    /\ recursiveCalled' = TRUE
    /\ UNCHANGED <<dynamo_kwargs, _partial, attrs, startCalled>>

\* ReadIterator.partial
partial(b) ==
    /\ Returned("partial")
    /\ _partial' = b
    /\ UNCHANGED <<dynamo_kwargs, _recursive, attrs, startCalled, recursiveCalled>>

(***************************************************************************)
(* specific_attributes: the placeholder of part parti of attribute attri,  *)
(* the rewritten segment of one attribute, and the whole call.             *)
(***************************************************************************)
\* variant of pename: the part number left out of the placeholder
pename_attr_only(attri, parti) == <<"#pe">> \o Str(attri)

pename(attri, parti) == <<"#pe">> \o Join(<<Str(attri), Str(parti)>>, "_")

name_parts(attri, attr) ==
    LET parts == Split(attr, ".")
    IN  [parti \in 1..Len(parts) |-> pename(attri, parti - 1)]

pe_segment(attri, attr) == Join(name_parts(attri, attr), ".")

\* ExpressionAttributeNames after the loops: dict assignment in iteration order
RECURSIVE pe_names(_, _, _)
pe_names(names, as, attri) ==
    IF attri > Len(as) THEN names
    ELSE LET parts == Split(as[attri], ".")
             new   == { pename(attri - 1, parti - 1) : parti \in 1..Len(parts) }
             upd   == [ph \in DOMAIN names \cup new |->
                          IF ph \in new
                          THEN parts[CHOOSE parti \in 1..Len(parts) : pename(attri - 1, parti - 1) = ph]
                          ELSE names[ph]]
         IN  pe_names(upd, as, attri + 1)

specific_attributes_kwargs(dk, as) ==
    LET names0 == IF dk.ExpressionAttributeNames = None THEN << >> ELSE dk.ExpressionAttributeNames[1]
    IN  [dk EXCEPT !.ExpressionAttributeNames = Some(pe_names(names0, as, 1)),
                   !.ProjectionExpression =
                       Some(Join([attri \in 1..Len(as) |-> pe_segment(attri - 1, as[attri])], ", "))]

AttrLists ==
    { << <<"a", ".", "b">>, <<"c">> >>,
      << <<"c", ".", "d", ".", "e">> >>,
      << >> }

\* ReadIterator.specific_attributes
specific_attributes(as) ==
    /\ Returned("specific_attributes")
    /\ dynamo_kwargs' = specific_attributes_kwargs(dynamo_kwargs, as)
    /\ _partial' = TRUE
    /\ attrs' = as
    /\ UNCHANGED <<_recursive, startCalled, recursiveCalled>>

\* variant of count: the count response is stored as the iterator's page
count_keeps_resp ==
    LET dk == [dynamo_kwargs EXCEPT !.Select = Some("COUNT")]
        g  == get_resp(METHOD_NAME, args, kwargs, dk)
    IN  /\ nreq < MaxReqs
        /\ g.err = ""
        /\ nmut' = nmut + 1
        /\ lastOp' = "count"
        /\ dynamo_kwargs' = g.kept
        /\ resp' = Some(Respond(store, g.req[1]))
        /\ ret' = RetCount(Respond(store, g.req[1]).Count)
        /\ lastReq' = g.req
        /\ nreq' = nreq + 1
        /\ UNCHANGED <<fixed, _partial, _recursive, last, index, attrs, out, runReqs,
                       runStart, stopped, againAt, startCalled, recursiveCalled>>

\* ReadIterator.count
count ==
    LET dk == [dynamo_kwargs EXCEPT !.Select = Some("COUNT")]
        g  == get_resp(METHOD_NAME, args, kwargs, dk)
    IN  /\ nreq < MaxReqs
        /\ nmut' = nmut + 1
        /\ lastOp' = "count"
        /\ dynamo_kwargs' = g.kept
        /\ IF g.err # ""
           THEN /\ ret' = RetErr(g.err)
                /\ UNCHANGED <<lastReq, nreq>>
           ELSE /\ ret' = RetCount(Respond(store, g.req[1]).Count)
                /\ lastReq' = g.req
                /\ nreq' = nreq + 1
        /\ UNCHANGED <<fixed, _partial, _recursive, last, resp, index, attrs, out, runReqs,
                       runStart, stopped, againAt, startCalled, recursiveCalled>>

\* ReadIterator.again, called by the user of the iterator
again ==
    /\ resp' = None
    /\ index' = again_index
    /\ dynamo_kwargs' = again_kwargs(dynamo_kwargs, last)
    /\ lastOp' = "again"
    /\ ret' = RetSelf
    /\ out' = <<>>
    /\ runReqs' = 0
    /\ runStart' = None
    /\ stopped' = FALSE
    /\ againAt' = index
    /\ UNCHANGED <<fixed, _partial, _recursive, last, attrs, lastReq, startCalled,
                   recursiveCalled, nreq, nmut>>

\* DynamoTable3.query, called with a new query_kwargs dict
query ==
    /\ ~call.made
    /\ call' = [call EXCEPT !.made = TRUE]
    /\ result' = Table_query(call.args, call.kwargs, [EmptyKwargs EXCEPT !.IndexName = call.IndexName])
    /\ UNCHANGED <<itVars, scanned, fVars, bVars, restVars>>

\* DynamoTable3.scan, called with the same arguments and no scan_kwargs
scan ==
    /\ ~scanned.made
    /\ scanned' = [made |-> TRUE,
                   err  |-> Table_scan(call.args, call.kwargs, EmptyKwargs).err,
                   req  |-> Table_scan(call.args, call.kwargs, EmptyKwargs).req]
    /\ UNCHANGED <<itVars, call, result, fVars, bVars, restVars>>

\* the outcomes the store can answer a request with
Outcomes == {"ok", "absent", ConditionalCheckFailed, ThroughputExceeded}

\* a facade call made with store outcome o ends as r: a conditional-check
\* failure answers only a request with a condition, "absent" only a get_item
Facade(r, o) ==
    /\ o = ConditionalCheckFailed => (r.reqs # <<>> /\ r.reqs[1].ConditionExpression # None)
    /\ o = "absent" => (r.reqs # <<>> /\ r.reqs[1].op = "get_item")
    /\ r.reqs = <<>> => o = "ok"
    /\ fres' = [made |-> TRUE, outcome |-> IF r.reqs = <<>> THEN "" ELSE o, err |-> r.err,
                code |-> r.code, val |-> r.val, reqs |-> r.reqs]
    /\ UNCHANGED <<itVars, qVars, fcall, bVars, restVars>>

put ==
    /\ fcall.op = "put" /\ ~fres.made
    /\ \E o \in Outcomes : Facade(Table_put(fcall.item, fcall.cond, o), o)

put_unique ==
    /\ fcall.op = "put_unique" /\ ~fres.made
    /\ \E o \in Outcomes : Facade(Table_put_unique(fcall.item, fcall.cond, o), o)

put_batch ==
    /\ fcall.op = "put_batch" /\ ~fres.made
    /\ \E o \in Outcomes : Facade(Table_put_batch(fcall.items, o), o)

get ==
    /\ fcall.op = "get" /\ ~fres.made
    /\ \E o \in Outcomes : Facade(Table_get(fcall.consistent, fcall.kwargs, o), o)

update ==
    /\ fcall.op = "update" /\ ~fres.made
    /\ \E o \in Outcomes : Facade(Table_update(fcall.conditions, fcall.kwargs, o), o)

delete_item ==
    /\ fcall.op = "delete_item" /\ ~fres.made
    /\ \E o \in Outcomes : Facade(Table_delete_item(fcall.kwargs, o), o)

MaxAttempts == 4    \* attempts counts batch_get_item calls up to this number

\* get_batch up to the while loop: the keys are checked and collected
get_batch_keys ==
    /\ pc = "keys"
    /\ IF \E i \in 1..Len(bcall.keys) : \E j \in 1..Len(bcall.keys[i]) :
              bcall.keys[i][j].key \notin dynamorm_fields
       THEN /\ pc' = "error"
            /\ UNCHANGED batch_get_kwargs
       ELSE /\ pc' = "request"
            /\ batch_get_kwargs' =
                   [Keys |-> bcall.keys,
                    ConsistentRead |-> IF bcall.consistent THEN Some(TRUE) ELSE None,
                    ProjectionExpression |-> bcall.attrs]
    /\ UNCHANGED <<itVars, qVars, fVars, restVars, bcall, response, item_index, yielded,
                   attempts>>

\* the keys of a request at the positions in P, in request order or reversed
KeysAt(req, P, reversed) ==
    IF reversed
    THEN SelectSeq([i \in 1..Len(req.Keys) |-> req.Keys[Len(req.Keys) + 1 - i]],
                   LAMBDA k : \E i \in P : req.Keys[i] = k)
    ELSE SelectSeq(req.Keys, LAMBDA k : \E i \in P : req.Keys[i] = k)

\* the item stored under a key {id: n} is the number n
ItemOf(key) == key[1].value.a[1]

\* the store processes the keys at positions P of the request and reports
\* the others as unprocessed, with the request's other parameters
BatchRespond(req, P, reversed) ==
    [Responses |-> [i \in 1..Len(KeysAt(req, P, reversed)) |->
                       ItemOf(KeysAt(req, P, reversed)[i])],
     UnprocessedKeys |->
         IF P = 1..Len(req.Keys) THEN None
         ELSE Some([req EXCEPT !.Keys = KeysAt(req, (1..Len(req.Keys)) \ P, FALSE)])]

\* "response = self.resource.batch_get_item(...)"
batch_get_item(P, reversed) ==
    /\ pc = "request"
    /\ response' = BatchRespond(batch_get_kwargs, P, reversed)
    /\ item_index' = 0
    /\ attempts' = Min(attempts + 1, MaxAttempts)
    /\ pc' = "items"
    /\ UNCHANGED <<itVars, qVars, fVars, restVars, bcall, batch_get_kwargs, yielded>>

\* "for item in response['Responses'][self.name]: yield item"
yield_item ==
    /\ pc = "items"
    /\ item_index < Len(response.Responses)
    /\ yielded' = Append(yielded, response.Responses[item_index + 1])
    /\ item_index' = item_index + 1
    /\ UNCHANGED <<itVars, qVars, fVars, restVars, bcall, pc, batch_get_kwargs, response,
                   attempts>>

\* variant of batch_more: the loop ends after the first response
batch_more_once(rsp) == FALSE

\* "response['UnprocessedKeys'][self.name]" does not raise KeyError
batch_more(rsp) == rsp.UnprocessedKeys # None

\* variant of batch_next_kwargs: the whole request is sent again
batch_next_kwargs_same(req, rsp) == req

\* "batch_get_kwargs = response['UnprocessedKeys'][self.name]"
batch_next_kwargs(req, rsp) == rsp.UnprocessedKeys[1]

\* the end of the while body: the next request, or break
unprocessed ==
    /\ pc = "items"
    /\ item_index = Len(response.Responses)
    /\ IF batch_more(response)
       THEN /\ batch_get_kwargs' = batch_next_kwargs(batch_get_kwargs, response)
            /\ pc' = "request"
       ELSE /\ pc' = "done"
            /\ UNCHANGED batch_get_kwargs
    /\ UNCHANGED <<itVars, qVars, fVars, restVars, bcall, response, item_index, yielded,
                   attempts>>

\* Q(**{key: value})
call_Q ==
    /\ xcall.fn = "Q" /\ ~xres.made
    /\ xres' = [made |-> TRUE,
                err  |-> Q(<<Entry(xcall.key, xcall.value)>>).err,
                leaf |-> IF Q(<<Entry(xcall.key, xcall.value)>>).expression = None THEN <<>>
                         ELSE Q(<<Entry(xcall.key, xcall.value)>>).expression[1]]
    /\ UNCHANGED <<oldVars, notX, xcall>>

\* get_expression(Key(name) or Attr(name), op, value)
call_get_expression ==
    /\ xcall.fn = "get_expression" /\ ~xres.made
    /\ xres' = [made |-> TRUE,
                err  |-> get_expression([cls |-> xcall.cls, name |-> xcall.key], xcall.op,
                                        xcall.value).err,
                leaf |-> get_expression([cls |-> xcall.cls, name |-> xcall.key], xcall.op,
                                        xcall.value).leaf]
    /\ UNCHANGED <<oldVars, notX, xcall>>

\* an instance operation that ends as s
Ends(s) ==
    /\ instance' = s.instance
    /\ _validated_data' = s.validated
    /\ stored' = s.stored
    /\ mtrace' = s.trace
    /\ mres' = [err |-> s.err, Attributes |-> s.Attributes, reqs |-> s.reqs]
    /\ UNCHANGED <<oldVars, notM, unknown>>

\* the store's answers to one request: a conditional-check failure answers
\* only a request that has a condition
Answers(conditional) ==
    {"ok", ThroughputExceeded} \cup (IF conditional THEN {ConditionalCheckFailed} ELSE {})

\* setattr(instance, "count", v)
instance_setattr(v) ==
    /\ instance[<<"count">>] # v
    /\ mcall' = [NoMCall EXCEPT !.op = "setattr"]
    /\ Ends([Operation(DictSet(instance, <<"count">>, v), _validated_data, stored)
                 EXCEPT !.trace = <<>>])

\* instance.save(partial=p, unique=u, return_all=ra)
instance_save(p, u, ra, raises) ==
    /\ mcall' = [NoMCall EXCEPT !.op = "save", !.partial = p, !.raises = raises,
                                !.updates = IF p THEN save_updates(instance, _validated_data)
                                            ELSE <<>>]
    /\ \E o \in Answers(u /\ ~p) :
           Ends(DynaModel_save(Operation(instance, _validated_data, stored), p, u, ra, raises,
                               o, unknown))

\* instance.update(conditions=c, return_all=ra, **kw)
instance_update(c, ra, kw, raises) ==
    /\ mcall' = [NoMCall EXCEPT !.op = "update", !.raises = raises, !.updates = kw]
    /\ \E o \in Answers(c # <<>>) :
           Ends(DynaModel_update(Operation(instance, _validated_data, stored), c, ra, kw,
                                 raises, o, unknown))

\* instance.delete()
instance_delete(raises) ==
    /\ mcall' = [NoMCall EXCEPT !.op = "delete", !.raises = raises]
    /\ \E o \in Answers(FALSE) :
           Ends(DynaModel_delete(Operation(instance, _validated_data, stored), raises, o))

\* "try: return cls._table except AttributeError: pass"
get_table_try(t) ==
    /\ gpc[t] = "idle" /\ gcalls[t] < MaxCalls
    /\ IF _table # None
       THEN /\ returned' = [returned EXCEPT ![t] = _table]
            /\ gcalls' = [gcalls EXCEPT ![t] = @ + 1]
            /\ UNCHANGED gpc
       ELSE /\ gpc' = [gpc EXCEPT ![t] = "create"]
            /\ UNCHANGED <<returned, gcalls>>
    /\ UNCHANGED <<oldVars, notG, _table, handle, created>>

\* "cls.get_resource().Table(name)": the right-hand side of the assignment
get_table_create(t) ==
    /\ gpc[t] = "create"
    /\ created' = created + 1
    /\ handle' = [handle EXCEPT ![t] = Some(created + 1)]
    /\ gpc' = [gpc EXCEPT ![t] = "assign"]
    /\ UNCHANGED <<oldVars, notG, _table, returned, gcalls>>

\* "cls._table = ..."
get_table_assign(t) ==
    /\ gpc[t] = "assign"
    /\ _table' = handle[t]
    /\ handle' = [handle EXCEPT ![t] = None]
    /\ gpc' = [gpc EXCEPT ![t] = "return"]
    /\ UNCHANGED <<oldVars, notG, returned, created, gcalls>>

\* "return cls._table"
get_table_return(t) ==
    /\ gpc[t] = "return"
    /\ returned' = [returned EXCEPT ![t] = _table]
    /\ gcalls' = [gcalls EXCEPT ![t] = @ + 1]
    /\ gpc' = [gpc EXCEPT ![t] = "idle"]
    /\ UNCHANGED <<oldVars, notG, _table, handle, created>>

\* update_table begins (or begins again, for "return self.update_table()"):
\* a new Table object, loaded when wait_for_active reads its status
Begin(rem) ==
    /\ table' = rem
    /\ things' = <<"table">>
    /\ thing' = 1
    /\ wait_duration' = 1
    /\ sleeps' = <<>>
    /\ upc' = "wait"

\* update_table ends with an exception
Fails(e) ==
    /\ ures' = [ures EXCEPT !.done = TRUE, !.err = e]
    /\ upc' = "idle"
    /\ things' = <<>>
    /\ thing' = 0
    /\ wait_duration' = 1
    /\ sleeps' = <<>>

AllActive(tbl) ==
    /\ tbl.status = "ACTIVE"
    /\ \A n \in DOMAIN tbl.gsi : tbl.gsi[n].status = "ACTIVE"

\* table.update_table() called by the user
update_table_call ==
    /\ upc = "idle"
    /\ IF _update_table_ops = None THEN TRUE ELSE _update_table_ops[1] < MaxOps
    /\ _update_table_ops' = count_op(_update_table_ops)
    /\ Begin(remote)
    /\ issued' = 0
    /\ at_entry' = remote
    /\ ures' = NoURes
    /\ UNCHANGED <<oldVars, notU, descriptor, remote>>

\* _wait: the thing awaited is ACTIVE, or is an index that is gone
wait_active ==
    /\ upc = "wait"
    /\ IF things[thing] = "table" THEN table.status = "ACTIVE"
       ELSE thing_status(table, things[thing]) \in {None, Some("ACTIVE")}
    /\ things' = IF thing = 1 THEN <<"table">> \o IndexList(table, 1) ELSE things
    /\ thing' = thing + 1
    /\ upc' = IF thing + 1 > Len(things') THEN "update" ELSE "wait"
    /\ wait_duration' = 1
    /\ sleeps' = <<>>
    /\ UNCHANGED <<oldVars, notU, descriptor, remote, table, _update_table_ops, issued, at_entry,
                   ures>>

\* _wait: "time.sleep(wait_duration) ... table.load(); continue"
wait_sleep ==
    /\ upc = "wait"
    /\ IF thing_status(table, things[thing]) = None THEN FALSE
       ELSE thing_status(table, things[thing])[1] \in ok_statuses(things[thing])
    /\ Len(sleeps) < MaxSleeps
    /\ sleeps' = Append(sleeps, wait_duration)
    /\ wait_duration' = next_wait_duration(wait_duration)
    /\ table' = remote
    /\ UNCHANGED <<oldVars, notU, descriptor, remote, _update_table_ops, upc, things, thing,
                   issued, at_entry, ures>>

\* _wait: "raise TableNotActive"
wait_raise ==
    /\ upc = "wait"
    /\ IF thing_status(table, things[thing]) = None THEN FALSE
       ELSE thing_status(table, things[thing])[1] \notin
                ok_statuses(things[thing]) \cup {"ACTIVE"}
    /\ Fails("TableNotActive")
    /\ UNCHANGED <<oldVars, notU, descriptor, remote, table, _update_table_ops, issued, at_entry>>

\* do_update(...) accepted by the store, and "return self.update_table()"
update_table_issue ==
    /\ upc = "update"
    /\ Decide(descriptor, table).do \in
           {"ProvisionedThroughput", "StreamSpecification", "Delete", "Create"}
    /\ remote' = Accepted(descriptor, remote, Decide(descriptor, table))
    /\ issued' = issued + 1
    /\ ures' = [ures EXCEPT !.active = @ /\ AllActive(table)]
    /\ _update_table_ops' = count_op(_update_table_ops)
    /\ Begin(remote')
    /\ UNCHANGED <<oldVars, notU, descriptor, at_entry>>

\* do_update(...) rejected by the store: the creation, as a global index, of
\* an index that the table has as a local index
update_table_rejected ==
    /\ upc = "update"
    /\ Decide(descriptor, table).do = "Create"
    /\ Decide(descriptor, table).name \in remote.lsi
    /\ issued' = issued + 1
    /\ Fails("ClientError")
    /\ UNCHANGED <<oldVars, notU, descriptor, remote, table, _update_table_ops, at_entry>>

\* "'IndexName': index['IndexName']" on an index object
update_table_raise ==
    /\ upc = "update"
    /\ Decide(descriptor, table).do = "raise"
    /\ Fails(Decide(descriptor, table).err)
    /\ UNCHANGED <<oldVars, notU, descriptor, remote, table, _update_table_ops, issued, at_entry>>

\* "update_ops = self._update_table_ops; self._update_table_ops = None; return update_ops"
update_table_return ==
    /\ upc = "update"
    /\ Decide(descriptor, table).do = "return"
    /\ ures' = [ures EXCEPT !.done = TRUE, !.ret = _update_table_ops[1]]
    /\ _update_table_ops' = None
    /\ upc' = "idle"
    /\ things' = <<>>
    /\ thing' = 0
    /\ UNCHANGED <<oldVars, notU, descriptor, remote, table, wait_duration, sleeps, issued,
                   at_entry>>

\* the store completes what it was doing to the table or to one index
store_settles ==
    /\ \/ /\ remote.status # "ACTIVE"
          /\ remote' = [remote EXCEPT !.status = "ACTIVE"]
       \/ \E n \in DOMAIN remote.gsi :
              /\ remote.gsi[n].status # "ACTIVE"
              /\ remote' = IF remote.gsi[n].status = "DELETING"
                           THEN [remote EXCEPT !.gsi = [k \in DOMAIN @ \ {n} |-> @[k]]]
                           ELSE [remote EXCEPT !.gsi = [@ EXCEPT ![n] =
                                                            [@ EXCEPT !.status = "ACTIVE"]]]
    /\ UNCHANGED <<oldVars, notU, descriptor, table, _update_table_ops, upc, things, thing,
                   wait_duration, sleeps, issued, at_entry, ures>>

vars == <<itVars, qVars, fVars, bVars, restVars>>

StartKeys == 1..Min(store.NumItems, MaxStart)

(***************************************************************************)
(* Spec: the paging protocol.  The caller iterates, resets, and configures *)
(* what the paging reads: limit, start, recursive, count.                  *)
(***************************************************************************)
Init == ItInit /\ QInit /\ FInit /\ BInit /\ RInit

Next ==
    \/ next
    \/ again
    \/ nmut < MaxMut /\ \E n \in 1..MaxLimit : limit(n)
    \/ nmut < MaxMut /\ \E k \in StartKeys : start(k)
    \/ nmut < MaxMut /\ recursive
    \/ nmut < MaxMut /\ count

Spec == Init /\ [][Next]_vars

(***************************************************************************)
(* SpecConfig: every mutator of the iterator, called in any state that     *)
(* iterating and resetting reach.                                          *)
(***************************************************************************)
NextConfig ==
    \/ next
    \/ again
    \/ nmut < MaxCfg /\ \E n \in 1..MaxLimit : limit(n)
    \/ nmut < MaxCfg /\ \E k \in StartKeys : start(k)
    \/ nmut < MaxCfg /\ recursive
    \/ nmut < MaxCfg /\ count
    \/ nmut < MaxCfg /\ consistent
    \/ nmut < MaxCfg /\ reverse
    \/ nmut < MaxCfg /\ \E b \in BOOLEAN : partial(b)
    \/ nmut < MaxCfg /\ \E as \in AttrLists : specific_attributes(as)

SpecConfig == Init /\ [][NextConfig]_vars

(***************************************************************************)
(* Properties of the read iterator.                                        *)
(***************************************************************************)
HasLimit == dynamo_kwargs.Limit # None
CountOnly == dynamo_kwargs.Select # None

\* the items of the result set after position k
ItemsAfter(k) == [i \in 1..(IF k >= store.NumItems THEN 0 ELSE store.NumItems - k) |-> k + i]

\* the position the current run started from
RunStartPos == IF runStart = None \/ runStart[1] = None THEN 0 ELSE runStart[1][1]

\* C1: with recursive() enabled and no Limit, on an iterator whose requests ask
\* for items, a run of next() calls raises no error before the end of sequence,
\* and when next() signals the end it has returned every item of every page from
\* the run's start position on, each exactly once, in page and offset order.
C1_RecursiveRunYieldsEveryItem ==
    (lastOp = "next" /\ _recursive /\ ~HasLimit /\ ~CountOnly /\ runReqs > 0) =>
        /\ ret.kind = "error" => stopped
        /\ ret.kind = "stop" => out = ItemsAfter(RunStartPos)

C1_Witness ==
    /\ lastOp = "next" /\ ret.kind = "stop" /\ _recursive /\ ~HasLimit /\ ~CountOnly
    /\ store.PageSize = 2 /\ runReqs >= 2 /\ out = <<1, 2, 3>>

C3_ExhaustedIsTerminal ==
    [][(stopped /\ lastOp' = "next") => (ret'.kind = "stop" /\ nreq' = nreq)]_vars

\* the request Table.query / Table.scan builds from the constructor's arguments
OriginalRequest ==
    get_resp(METHOD_NAME, args, kwargs, [EmptyKwargs EXCEPT !.IndexName = dynamo_kwargs.IndexName])

\* C4: every request the iterator sends carries exactly the key condition and
\* the filter condition built from the arguments fixed at construction.
C4_RequestConditionsAreFixed ==
    (lastReq # None /\ ~CountOnly) =>
        /\ lastReq[1].KeyConditionExpression = OriginalRequest.req[1].KeyConditionExpression
        /\ lastReq[1].FilterExpression = OriginalRequest.req[1].FilterExpression

\* C5: when the last page fetched carried a continuation cursor, again()
\* clears the page and the offset and keeps the cursor, and the request of
\* the next() that follows it carries that cursor as its start key.
C5_AgainResumesFromCursor ==
    [][/\ (lastOp' = "again" /\ last # None) =>
            (resp' = None /\ index' = -1 /\ last' = last
             /\ dynamo_kwargs'.ExclusiveStartKey = last)
       /\ (lastOp = "again" /\ last # None /\ lastOp' = "next" /\ ret'.kind # "error") =>
            (runReqs' >= 1 /\ runStart' = Some(last))]_vars

C5_Witness ==
    /\ lastOp = "next" /\ ret.kind = "item" /\ ret.val = 3
    /\ ~startCalled /\ againAt = 0 /\ runStart = Some(Some(2)) /\ out = <<3>>

\* C6: when the last page fetched carried no continuation cursor, the next()
\* that follows again() re-issues the original request: on an iterator whose
\* start() was never called, its request has no start key.
C6_AgainRestartsFromScratch ==
    [][(lastOp = "again" /\ last = None /\ ~startCalled /\ lastOp' = "next" /\ runReqs' >= 1) =>
            runStart' = Some(None)]_vars

\* C7: while a Limit is configured next() never continues to a further page:
\* it sends a request only when the iterator holds no page, then exactly one,
\* it leaves recursive mode off, and at the end of the page it signals end of
\* sequence even if the page carried a continuation cursor.
C7_LimitDisablesRecursion ==
    [][(HasLimit /\ lastOp' = "next" /\ ret'.kind # "error") =>
          /\ nreq' = IF resp = None THEN nreq + 1 ELSE nreq
          /\ ~_recursive'
          /\ resp # None => resp' = resp
          /\ (resp # None /\ index + 1 = resp[1].Count) => ret'.kind = "stop"
          /\ (resp = None /\ resp'[1].Count = 0) => ret'.kind = "stop"]_vars

C7_Witness ==
    /\ HasLimit /\ recursiveCalled /\ lastOp = "next" /\ ret.kind = "stop"
    /\ last # None /\ runReqs = 1 /\ out = <<1>>

Mutators == {"limit", "start", "consistent", "reverse", "specific_attributes", "recursive",
             "partial"}

\* C8: count() and every config mutator leave the current page, the offset
\* and the last-seen continuation cursor unchanged, and every mutator
\* returns the iterator itself.
C8_ConfigLeavesPagingState ==
    [][(lastOp' \in Mutators \cup {"count"}) =>
          /\ resp' = resp /\ index' = index /\ last' = last
          /\ lastOp' \in Mutators => ret' = RetSelf]_vars

C8_Witness ==
    /\ lastOp = "count" /\ ret.kind = "count" /\ resp # None /\ index = 0 /\ last # None

\* the segments of a projection expression, and the placeholders of a segment
Segments(pe) == IF pe = <<>> THEN <<>> ELSE Split(pe, ", ")
Placeholders(seg) == Split(seg, ".")

\* C9: after specific_attributes(attrs) the iterator is in partial mode, the
\* projection expression has one segment per entry of attrs, in order, segment
\* i has one placeholder per dot-separated part of attrs[i], the placeholders
\* of the call are pairwise distinct, and ExpressionAttributeNames maps each
\* placeholder to the part it replaces.
C9_SpecificAttributesProjection ==
    lastOp = "specific_attributes" =>
        LET segs  == Segments(dynamo_kwargs.ProjectionExpression[1])
            names == dynamo_kwargs.ExpressionAttributeNames[1]
            parts(i) == Split(attrs[i], ".")
            phs(i)   == Placeholders(segs[i])
            slots == UNION { { <<i, j>> : j \in 1..Len(parts(i)) } : i \in 1..Len(attrs) }
        IN  /\ _partial
            /\ Len(segs) = Len(attrs)
            /\ \A i \in 1..Len(attrs) : Len(phs(i)) = Len(parts(i))
            /\ \A sl \in slots :
                  /\ phs(sl[1])[sl[2]] \in DOMAIN names
                  /\ names[phs(sl[1])[sl[2]]] = parts(sl[1])[sl[2]]
            /\ \A s1 \in slots : \A s2 \in slots :
                  s1 # s2 => phs(s1[1])[s1[2]] # phs(s2[1])[s2[2]]

C9_Witness ==
    /\ lastOp = "specific_attributes"
    /\ attrs = << <<"a", ".", "b">>, <<"c">> >>
    /\ resp # None

(***************************************************************************)
(* SpecQuery: Table.query called directly with keyword entries drawn from  *)
(* a pool, in every insertion order, on the table and on its indexes.      *)
(***************************************************************************)
MaxKw == 3    \* keyword entries per Table.query call

EntryPool ==
    { Entry(<<"id">>, IntV(1)),
      Entry(<<"ts", "__", "gt">>, IntV(5)),
      Entry(<<"color">>, IntV(2)),
      Entry(<<"size", "__", "lt">>, IntV(3)),
      Entry(<<"ts", "__", "a", "__", "gt">>, IntV(5)),
      Entry(<<"tag", "__", "exists">>, BoolV(TRUE)) }

\* keyword dicts: sequences of pool entries without repetition
KwargsOf(n) ==
    { kw \in [1..n -> EntryPool] : \A i \in 1..n : \A j \in 1..n : i # j => kw[i] # kw[j] }

KwargsSet == UNION { KwargsOf(n) : n \in 0..MaxKw }

ArgsSet == { <<>>, << <<Leaf([cls |-> "Attr", name |-> <<"tag">>], "contains", <<IntV(7)>>)>> >> }

IndexNames == { None, Some(<<"by_color">>), Some(<<"by_size">>), Some(<<"by_name">>) }

InitQuery ==
    /\ ItInit
    /\ METHOD_NAME = "query"
    /\ kwargs = <<K_color>>
    /\ store = [NumItems |-> 0, PageSize |-> 1, eager |-> FALSE]
    /\ \E a \in ArgsSet : \E kw \in KwargsSet : \E ix \in IndexNames :
          call = [made |-> FALSE, args |-> a, kwargs |-> kw, IndexName |-> ix]
    /\ result = NoResult
    /\ scanned = NoScan
    /\ FInit
    /\ BInit
    /\ RInit

NextQuery == query \/ scan

SpecQuery == InitQuery /\ [][NextQuery]_vars

(***************************************************************************)
(* SpecFacade: one call of a write or point-read operation, with every     *)
(* outcome of the store.                                                   *)
(***************************************************************************)
MaxUpd == 3    \* keyword entries per Table.update call

UpdatePool ==
    { Entry(<<"id">>, IntV(1)),
      Entry(<<"ts">>, IntV(2)),
      Entry(<<"count", "__", "plus">>, IntV(3)),
      Entry(<<"count", "__", "minus">>, IntV(4)),
      Entry(<<"name">>, IntV(5)),
      Entry(<<"tags", "__", "append">>, ListV(<<6>>)),
      Entry(<<"size", "__", "if_not_exists">>, IntV(0)),
      Entry(<<"bogus">>, IntV(7)),
      Entry(<<"count", "__", "times">>, IntV(8)) }

UpdatesOf(n) ==
    { kw \in [1..n -> UpdatePool] : \A i \in 1..n : \A j \in 1..n : i # j => kw[i] # kw[j] }

UpdateKwargs == UNION { UpdatesOf(n) : n \in 0..MaxUpd }

ConditionsSet == { <<>>, <<Entry(<<"count", "__", "gt">>, IntV(0))>> }

ItemsSet ==
    { <<Entry(<<"id">>, IntV(1)), Entry(<<"name">>, NoneV)>>,
      <<Entry(<<"id">>, IntV(2)), Entry(<<"bogus">>, IntV(7))>> }

BatchesSet == { <<>> } \cup { <<it>> : it \in ItemsSet } \cup (ItemsSet \X ItemsSet)

KeysSet ==
    { <<Entry(<<"id">>, IntV(1)), Entry(<<"ts">>, IntV(2))>>,
      <<Entry(<<"id">>, IntV(1))>>,
      <<Entry(<<"id">>, IntV(1)), Entry(<<"bogus">>, IntV(7))>> }

PutConditions == { None, Some(<<"attribute_exists(", "id", ")">>) }

FacadeCalls ==
    { [NoFCall EXCEPT !.op = "update", !.kwargs = kw, !.conditions = c] :
          kw \in UpdateKwargs, c \in ConditionsSet }
    \cup { [NoFCall EXCEPT !.op = o, !.item = it, !.cond = c] :
              o \in {"put", "put_unique"}, it \in ItemsSet, c \in PutConditions }
    \cup { [NoFCall EXCEPT !.op = "put_batch", !.items = b] : b \in BatchesSet }
    \cup { [NoFCall EXCEPT !.op = "get", !.kwargs = k, !.consistent = b] :
              k \in KeysSet, b \in BOOLEAN }
    \cup { [NoFCall EXCEPT !.op = "delete_item", !.kwargs = k] : k \in KeysSet }

InitFacade ==
    /\ ItInit
    /\ METHOD_NAME = "query"
    /\ kwargs = <<K_color>>
    /\ store = [NumItems |-> 0, PageSize |-> 1, eager |-> FALSE]
    /\ QInit
    /\ fcall \in FacadeCalls
    /\ fres = NoFRes
    /\ BInit
    /\ RInit

NextFacade == put \/ put_unique \/ put_batch \/ get \/ update \/ delete_item

SpecFacade == InitFacade /\ [][NextFacade]_vars

(***************************************************************************)
(* SpecBatch: one get_batch call, consumed to its end, against a store     *)
(* that processes any part of each request.  SpecBatchLive adds that the   *)
(* consumer keeps asking and that the store, asked again and again,        *)
(* eventually processes keys of a request.                                 *)
(***************************************************************************)
MaxKeys == 3    \* keys per get_batch call

KeyOf(n) == <<Entry(<<"id">>, IntV(n))>>

KeyLists ==
    { [i \in 1..n |-> KeyOf(i)] : n \in 1..MaxKeys }
    \cup { <<KeyOf(1), <<Entry(<<"bogus">>, IntV(1))>>>> }

InitBatch ==
    /\ ItInit
    /\ METHOD_NAME = "query"
    /\ kwargs = <<K_color>>
    /\ store = [NumItems |-> 0, PageSize |-> 1, eager |-> FALSE]
    /\ QInit
    /\ FInit
    /\ \E ks \in KeyLists : \E c \in BOOLEAN : \E a \in {None, Some(<<"name">>)} :
          bcall = [keys |-> ks, consistent |-> c, attrs |-> a]
    /\ pc = "keys"
    /\ batch_get_kwargs = NoBatch
    /\ response = NoResponse
    /\ item_index = 0
    /\ yielded = <<>>
    /\ attempts = 0
    /\ RInit

Progress ==
    \E P \in SUBSET (1..Len(batch_get_kwargs.Keys)) : \E r \in BOOLEAN :
        P # {} /\ batch_get_item(P, r)

NextBatch ==
    \/ get_batch_keys
    \/ \E P \in SUBSET (1..Len(batch_get_kwargs.Keys)) : \E r \in BOOLEAN : batch_get_item(P, r)
    \/ yield_item
    \/ unprocessed

SpecBatch == InitBatch /\ [][NextBatch]_vars

SpecBatchLive ==
    /\ SpecBatch
    /\ WF_vars(get_batch_keys)
    /\ WF_vars(yield_item)
    /\ WF_vars(unprocessed)
    /\ SF_vars(Progress)

(***************************************************************************)
(* SpecExpr: one call of Q with one keyword, or of get_expression.         *)
(***************************************************************************)
\* the state of the iterator and of the table operations when none is used
OldInit ==
    /\ ItInit
    /\ METHOD_NAME = "query"
    /\ kwargs = <<K_color>>
    /\ store = [NumItems |-> 0, PageSize |-> 1, eager |-> FALSE]
    /\ QInit
    /\ FInit
    /\ BInit

MaxSeg == 2    \* segments after the attribute name in a keyword of Q

SegmentPool ==
    {"state", "zip", "name", "size", "in", "type", "gt", "exists", "between", "is_in"}

\* attr__s1__...__sn as tokens
KeywordOf(segs) ==
    <<"address">> \o [i \in 1..(2 * Len(segs)) |-> IF i % 2 = 1 THEN "__" ELSE segs[i \div 2]]

Keywords == UNION { { KeywordOf(segs) : segs \in [1..n -> SegmentPool] } : n \in 0..MaxSeg }

\* the str operand is "ab", given by its character codes
Operands ==
    { IntV(5), BoolV(TRUE), BoolV(FALSE), ListV(<<1, 2>>), ListV(<<1>>), StrV(<<97, 98>>) }

InitExpr ==
    /\ OldInit
    /\ \/ \E k \in Keywords : \E v \in Operands :
              xcall = [NoXCall EXCEPT !.fn = "Q", !.key = k, !.value = v]
       \/ \E c \in {"Key", "Attr"} : \E o \in AttrMethods \cup {"name", "bogus"} :
          \E v \in Operands :
              xcall = [NoXCall EXCEPT !.fn = "get_expression", !.key = <<"address">>,
                                      !.cls = c, !.op = <<o>>, !.value = v]
    /\ xres = NoXRes
    /\ MInit
    /\ GInit
    /\ UInit

NextExpr == call_Q \/ call_get_expression

SpecExpr == InitExpr /\ [][NextExpr]_vars

(***************************************************************************)
(* SpecModel: one instance, constructed from the attributes of an item,    *)
(* on which attributes are assigned and save, update and delete are called *)
(* in any order.  The item in the store may carry an attribute the Schema  *)
(* does not declare.                                                       *)
(***************************************************************************)
Raw ==
    [k \in {<<"id">>, <<"ts">>, <<"count">>, <<"color">>} |->
        IF k = <<"id">> THEN IntV(1) ELSE IF k = <<"ts">> THEN IntV(2)
        ELSE IF k = <<"count">> THEN IntV(1) ELSE StrV(<<97>>)]

\* the values assigned to count: "5", "x" and 1
CountValues == { StrV(<<53>>), StrV(<<120>>), IntV(1) }

UpdatesSet == { <<>>, [k \in {<<"count">>} |-> IntV(5)], [k \in {<<"color">>} |-> StrV(<<98>>)] }

InitModel ==
    /\ OldInit
    /\ XInit
    /\ unknown \in {"raise", "exclude", "include"}
    /\ stored \in {Raw, DictSet(Raw, <<"legacy">>, IntV(9))}
    /\ _validated_data = dynamorm_validate(Raw, FALSE, TRUE, unknown).data
    /\ instance = _validated_data
    /\ mcall = NoMCall
    /\ mtrace = <<>>
    /\ mres = NoMRes
    /\ GInit
    /\ UInit

NextModel ==
    \/ \E v \in CountValues : instance_setattr(v)
    \/ \E p \in BOOLEAN : \E u \in BOOLEAN : \E ra \in BOOLEAN : \E raises \in BOOLEAN :
           instance_save(p, u, ra, raises)
    \/ \E c \in ConditionsSet : \E ra \in BOOLEAN : \E kw \in UpdatesSet :
       \E raises \in BOOLEAN : instance_update(c, ra, kw, raises)
    \/ \E raises \in BOOLEAN : instance_delete(raises)

SpecModel == InitModel /\ [][NextModel]_vars


(***************************************************************************)
(* SpecGetTable: the threads of a process call get_table of one table      *)
(* class, each several times.                                              *)
(***************************************************************************)
InitGetTable ==
    /\ OldInit
    /\ XInit
    /\ MInit
    /\ GInit
    /\ UInit

NextGetTable ==
    \/ \E t \in Threads : get_table_try(t)
    \/ \E t \in Threads : get_table_create(t)
    \/ \E t \in Threads : get_table_assign(t)
    \/ \E t \in Threads : get_table_return(t)

SpecGetTable == InitGetTable /\ [][NextGetTable]_vars

(***************************************************************************)
(* SpecUpdateTable: update_table called again and again on one table,      *)
(* whatever the descriptor and the store's table are at first.  The store  *)
(* may be archiving the table, which is no status to wait in.              *)
(***************************************************************************)
GsiSets ==
    { [n \in S |-> [status |-> "ACTIVE", capacity |-> IF n = "by_color" THEN c ELSE 5]] :
          S \in SUBSET {"by_color", "old"}, c \in {5, 10} }

RemoteTables(d) ==
    { [status |-> st, capacity |-> c, stream |-> s, gsi |-> g,
       lsi |-> { ix.name : ix \in { x \in d.indexes : x.kind = "LocalIndex" } }] :
          st \in {"ACTIVE", "ARCHIVING"}, c \in {5, 10}, s \in {None, Some("NEW_IMAGE")},
          g \in GsiSets }

InitUpdateTable ==
    /\ OldInit
    /\ XInit
    /\ MInit
    /\ GInit
    /\ descriptor \in Descriptors
    /\ remote \in RemoteTables(descriptor)
    /\ table = NoTable
    /\ _update_table_ops = None
    /\ upc = "idle"
    /\ things = <<>>
    /\ thing = 0
    /\ wait_duration = 1
    /\ sleeps = <<>>
    /\ issued = 0
    /\ at_entry = NoTable
    /\ ures = NoURes

NextUpdateTable ==
    \/ update_table_call
    \/ wait_active
    \/ wait_sleep
    \/ wait_raise
    \/ update_table_issue
    \/ update_table_rejected
    \/ update_table_raise
    \/ update_table_return
    \/ store_settles

SpecUpdateTable == InitUpdateTable /\ [][NextUpdateTable]_vars

\* C29: a count() call that succeeds sends exactly one request, which has
\* Select = COUNT, and every request a later next() sends has no Select: it
\* asks for items.
C29_CountSelectionIsConfined ==
    [][ /\ (lastOp' = "count" /\ ret'.kind = "count") =>
               (nreq' = nreq + 1 /\ lastReq'[1].Select = Some("COUNT"))
        /\ (lastOp' = "next" /\ nreq' > nreq) => lastReq'[1].Select = None ]_vars

(***************************************************************************)
(* Properties of Table.query.                                              *)
(***************************************************************************)
\* the operator names a keyword may end with
OperatorNames == AttrMethods

\* the attribute path of a keyword: its segments before the operator suffix
BasePath(key) ==
    LET parts == Split(key, "__")
    IN  IF Len(parts) > 1 /\ Len(parts[Len(parts)]) = 1 /\ parts[Len(parts)][1] \in OperatorNames
        THEN SubSeq(parts, 1, Len(parts) - 1) ELSE parts

\* the operator of a keyword
OperatorOf(key) ==
    LET parts == Split(key, "__")
    IN  IF Len(parts) > 1 /\ Len(parts[Len(parts)]) = 1 /\ parts[Len(parts)][1] \in OperatorNames
        THEN parts[Len(parts)] ELSE <<"eq">>

\* the key attributes of the target of a query
TargetKeys(ix) ==
    IF ix = None
    THEN {hash_key} \cup {range_key[i] : i \in 1..Len(range_key)}
    ELSE UNION { {x.hash_key} \cup {x.range_key[i] : i \in 1..Len(x.range_key)} :
                 x \in {y \in indexes : y.name = ix[1]} }

OnKey(entry, ix) == Len(BasePath(entry.key)) = 1 /\ BasePath(entry.key)[1] \in TargetKeys(ix)

LeavesOf(cond) == IF cond = None THEN {} ELSE { cond[1][i] : i \in 1..Len(cond[1]) }
SizeOf(cond) == IF cond = None THEN 0 ELSE Len(cond[1])

\* the leaf an entry stands for, as a condition on a Key or on an Attr
EntryLeaf(cls, entry) ==
    get_expression([cls |-> cls, name |-> Join(BasePath(entry.key), ".")],
                   OperatorOf(entry.key), entry.value).leaf[1]

\* C10: in a Table.query call that reaches the store, the key condition is the
\* AND of exactly the entries on a key attribute of the target (the named
\* index, else the table), the filter condition is the AND of exactly the
\* other entries and the positional conditions, each entry is used once, and
\* no filter condition is attached when there is neither.
C10_QueryPartitionsEntries ==
    (call.made /\ result.err = "") =>
        LET req  == result.req[1]
            ents == { call.kwargs[i] : i \in 1..Len(call.kwargs) }
            keyE == { e \in ents : OnKey(e, call.IndexName) }
            argL == UNION { { call.args[i][j] : j \in 1..Len(call.args[i]) } :
                            i \in 1..Len(call.args) }
        IN  /\ LeavesOf(req.KeyConditionExpression) = { EntryLeaf("Key", e) : e \in keyE }
            /\ SizeOf(req.KeyConditionExpression) = Cardinality(keyE)
            /\ LeavesOf(req.FilterExpression) =
                   { EntryLeaf("Attr", e) : e \in ents \ keyE } \cup argL
            /\ SizeOf(req.FilterExpression) = Cardinality(ents \ keyE) + Cardinality(argL)
            /\ (ents \ keyE = {} /\ call.args = <<>>) => req.FilterExpression = None

C10_Witness ==
    /\ call.made /\ result.err = ""
    /\ call.IndexName = Some(<<"by_size">>)
    /\ Len(call.kwargs) = 3
    /\ SizeOf(result.req[1].KeyConditionExpression) = 2
    /\ SizeOf(result.req[1].FilterExpression) = 1

\* the call has no keyword entry on a key attribute of its target
NoKeyEntry == \A i \in 1..Len(call.kwargs) : ~OnKey(call.kwargs[i], call.IndexName)

\* C11: Table.query called with no keyword entry on a key attribute of the
\* target raises InvalidSchemaField ("Primary key must be specified for
\* queries") and sends no request; Table.scan called with the same entries
\* sends its request, with every entry in the filter and no key condition.
C11_QueryNeedsKeyScanDoesNot ==
    NoKeyEntry =>
        /\ call.made => (result.err = "InvalidSchemaField" /\ result.req = None)
        /\ scanned.made =>
              /\ scanned.err = ""
              /\ scanned.req # None
              /\ scanned.req[1].KeyConditionExpression = None
              /\ SizeOf(scanned.req[1].FilterExpression) = Len(call.kwargs) + Len(call.args)
              /\ \A i \in 1..Len(call.kwargs) :
                    EntryLeaf("Attr", call.kwargs[i]) \in LeavesOf(scanned.req[1].FilterExpression)

C11_Witness ==
    /\ NoKeyEntry
    /\ Len(call.kwargs) = 2
    /\ call.made /\ result.err = "InvalidSchemaField" /\ result.req = None
    /\ scanned.made /\ scanned.err = "" /\ SizeOf(scanned.req[1].FilterExpression) = 2

(***************************************************************************)
(* Properties of the write and point-read operations.                      *)
(***************************************************************************)
\* the field a keyword of update names, and its function suffix ("" for none)
FieldOf(key) == Split(key, "__")[1]
SuffixOf(key) == IF Len(Split(key, "__")) = 1 THEN "" ELSE Split(key, "__")[2][1]

KeyFields == {hash_key} \cup {range_key[i] : i \in 1..Len(range_key)}

NamesKey(entry) == FieldOf(entry.key) \in KeyFields
NamesField(entry) == FieldOf(entry.key) \notin KeyFields

\* the SET fragment the suffix of an entry stands for
SetFragment(entry) ==
    LET n == <<"#uk_">> \o FieldOf(entry.key)
        v == <<":uv_">> \o FieldOf(entry.key)
    IN  CASE SuffixOf(entry.key) = "append" -> n \o <<" = list_append(">> \o n \o <<", ">> \o v \o <<")">>
          [] SuffixOf(entry.key) = "plus"   -> n \o <<" = ">> \o n \o <<" + ">> \o v
          [] SuffixOf(entry.key) = "minus"  -> n \o <<" = ">> \o n \o <<" - ">> \o v
          [] SuffixOf(entry.key) = "if_not_exists" ->
                 n \o <<" = if_not_exists(">> \o n \o <<", ">> \o v \o <<")">>
          [] SuffixOf(entry.key) = "" -> n \o <<" = ">> \o v

UpdateSent == fcall.op = "update" /\ fres.made /\ fres.reqs # <<>>

\* C12: in the request of a Table.update call, the Key map has exactly the
\* entries that name the hash or range key, with their values, no key field
\* occurs in the update expression, and the update expression is "SET "
\* followed by the fragments of the other entries, one per entry, each the
\* form its suffix selects, joined with ", ".
C12_UpdateCompilesKeyAndSet ==
    UpdateSent =>
        LET req    == fres.reqs[1]
            keyE   == SelectSeq(fcall.kwargs, NamesKey)
            fieldE == SelectSeq(fcall.kwargs, NamesField)
        IN  /\ Len(fres.reqs) = 1
            /\ DOMAIN req.Key[1] = { FieldOf(keyE[i].key) : i \in 1..Len(keyE) }
            /\ \A i \in 1..Len(keyE) : req.Key[1][FieldOf(keyE[i].key)] = keyE[i].value
            /\ \A i \in 1..Len(req.UpdateExpression[1]) :
                   \A k \in KeyFields : req.UpdateExpression[1][i] # k[1]
            /\ req.UpdateExpression[1] =
                   <<"SET ">> \o Join([i \in 1..Len(fieldE) |-> SetFragment(fieldE[i])], ", ")

C12_Witness ==
    /\ UpdateSent
    /\ Len(fcall.kwargs) = 3
    /\ DOMAIN fres.reqs[1].Key[1] = {<<"id">>}
    /\ fres.reqs[1].UpdateExpression[1] =
           <<"SET ", "#uk_", "count", " = ", "#uk_", "count", " + ", ":uv_", "count", ", ",
             "#uk_", "tags", " = list_append(", "#uk_", "tags", ", ", ":uv_", "tags", ")">>

UnknownField(entries) == \E i \in 1..Len(entries) : FieldOf(entries[i].key) \notin dynamorm_fields

\* C13: a Table.update call with an entry whose field name is not a schema
\* field raises InvalidSchemaField and sends no request, whatever its other
\* entries and its conditions are.
C13_UpdateRejectsUnknownField ==
    (fcall.op = "update" /\ fres.made /\ UnknownField(fcall.kwargs)) =>
        (fres.err = "InvalidSchemaField" /\ fres.reqs = <<>>)

\* C14: in the request of a Table.update call every SET fragment has its own
\* name placeholder and value token: the value map has one token per
\* fragment, and the value of every entry compiled into a fragment is in
\* the value map under the token of its fragment.
C14_UpdatePlaceholdersAreDistinct ==
    UpdateSent =>
        LET req    == fres.reqs[1]
            fieldE == SelectSeq(fcall.kwargs, NamesField)
        IN  /\ Cardinality(DOMAIN req.ExpressionAttributeValues[1]) = Len(fieldE)
            /\ Cardinality(DOMAIN req.ExpressionAttributeNames[1]) = Len(fieldE)
            /\ \A i \in 1..Len(fieldE) :
                   req.ExpressionAttributeValues[1][<<":uv_">> \o FieldOf(fieldE[i].key)]
                       = fieldE[i].value

\* C15: a Table.update call that reaches the store calls it once; when the
\* store answers with a conditional-check failure the call raises
\* ConditionFailed, when it answers with another error the call raises that
\* ClientError with its Code, and otherwise it raises nothing.
C15_UpdateConditionFailed ==
    UpdateSent =>
        /\ Len(fres.reqs) = 1
        /\ fres.outcome = ConditionalCheckFailed => (fres.err = "ConditionFailed" /\ fres.code = "")
        /\ fres.outcome = ThroughputExceeded =>
               (fres.err = "ClientError" /\ fres.code = ThroughputExceeded)
        /\ fres.outcome = "ok" => fres.err = ""

C15_Witness ==
    /\ UpdateSent
    /\ fres.reqs[1].ConditionExpression # None
    /\ fres.outcome = ConditionalCheckFailed
    /\ fres.err = "ConditionFailed"

\* C16: a put_unique call sends exactly one put_item request, whose condition
\* is attribute_not_exists(<hash key>) whatever condition the caller passed;
\* a conditional-check failure makes it raise HashKeyExists, another store
\* error is raised as it came.
C16_PutUniqueCondition ==
    (fcall.op = "put_unique" /\ fres.made) =>
        /\ Len(fres.reqs) = 1
        /\ fres.reqs[1].op = "put_item"
        /\ fres.reqs[1].ConditionExpression = Some(<<"attribute_not_exists(", hash_key[1], ")">>)
        /\ fres.outcome = ConditionalCheckFailed => (fres.err = "HashKeyExists" /\ fres.code = "")
        /\ fres.outcome = ThroughputExceeded =>
               (fres.err = "ClientError" /\ fres.code = ThroughputExceeded)
        /\ fres.outcome = "ok" => fres.err = ""

C16_Witness ==
    /\ fcall.op = "put_unique" /\ fres.made
    /\ fcall.cond = Some(<<"attribute_exists(", "id", ")">>)
    /\ fres.outcome = ConditionalCheckFailed
    /\ fres.err = "HashKeyExists"

\* the field names a facade call passes
CallNamesUnknownField ==
    \/ UnknownField(fcall.kwargs)
    \/ UnknownField(fcall.item)
    \/ \E i \in 1..Len(fcall.items) : UnknownField(fcall.items[i])

\* C19: a call of put, put_unique, put_batch, get, update or delete_item that
\* passes a field name absent from the schema raises InvalidSchemaField and
\* sends no request.
C19_EveryOperationValidatesFields ==
    (fres.made /\ CallNamesUnknownField) => (fres.err = "InvalidSchemaField" /\ fres.reqs = <<>>)

\* C20: when the store answers a conditional write (a put with a condition,
\* a put_unique, an update) with a conditional-check failure, the call raises
\* ConditionFailed or HashKeyExists, never the ClientError of the store.
C20_ConditionalFailuresAreTyped ==
    (fres.made /\ fres.outcome = ConditionalCheckFailed) =>
        fres.err \in {"ConditionFailed", "HashKeyExists"}

(***************************************************************************)
(* Properties of get_batch.                                                *)
(***************************************************************************)
\* C17: the first batch_get_item request of a get_batch call carries all the
\* requested keys, every later request carries exactly the keys the previous
\* response listed as unprocessed, each yield hands out the next item of the
\* current response, and when the generator ends (the store having returned
\* each key's item in one response) the items yielded are the items of the
\* requested keys, each once.
C17_BatchYieldsEachItemOnce ==
    [][ /\ (pc = "request" /\ pc' = "items" /\ attempts = 0) =>
                batch_get_kwargs.Keys = bcall.keys
        /\ (pc = "request" /\ pc' = "items" /\ attempts > 0) =>
                batch_get_kwargs.Keys = response.UnprocessedKeys[1].Keys
        /\ yielded' # yielded =>
                yielded' = Append(yielded, response.Responses[item_index + 1])
        /\ pc' = "done" =>
                /\ Len(yielded') = Len(bcall.keys)
                /\ { yielded'[i] : i \in 1..Len(yielded') } =
                       { ItemOf(bcall.keys[i]) : i \in 1..Len(bcall.keys) }
      ]_vars

C17_Witness ==
    /\ pc = "done"
    /\ Len(bcall.keys) = 3
    /\ attempts = 2
    /\ Len(response.Responses) = 1
    /\ yielded = <<3, 1, 2>>

\* C18: after the items of a response get_batch sends another request when
\* the response lists unprocessed keys and ends when it lists none, however
\* many requests it has sent; and when the consumer keeps asking and the
\* store keeps processing keys it reported as unprocessed, the generator
\* eventually ends.
C18_BatchEndsWhenNothingUnprocessed ==
    /\ [][ (pc = "items" /\ pc' # "items") =>
               /\ pc' = "done" <=> response.UnprocessedKeys = None
               /\ pc' = "request" <=> response.UnprocessedKeys # None ]_vars
    /\ <>(pc \in {"done", "error"})

C18_Witness ==
    /\ pc = "done"
    /\ Len(bcall.keys) = 1
    /\ attempts = MaxAttempts
    /\ yielded = <<1>>

(***************************************************************************)
(* Properties of Q and get_expression.                                     *)
(***************************************************************************)
\* the operator names of the keyword syntax, and the boto3 method of each
ReferenceOperators ==
    {"eq", "ne", "lt", "lte", "gt", "gte", "between", "in", "exists", "not_exists", "type",
     "begins_with", "contains"}

MethodOf(operator) ==
    IF operator = "in" THEN "is_in" ELSE IF operator = "type" THEN "attribute_type" ELSE operator

Segs(key) == [i \in 1..Len(Split(key, "__")) |-> Split(key, "__")[i][1]]

\* the two-phase parse: a terminal operator name is the operator, the other
\* segments are the nested path
ReferenceOperator(key) ==
    IF Len(Segs(key)) > 1 /\ Segs(key)[Len(Segs(key))] \in ReferenceOperators
    THEN Segs(key)[Len(Segs(key))] ELSE "eq"

ReferencePath(key) ==
    IF Len(Segs(key)) > 1 /\ Segs(key)[Len(Segs(key))] \in ReferenceOperators
    THEN SubSeq(Segs(key), 1, Len(Segs(key)) - 1) ELSE Segs(key)

NoInnerOperator(key) ==
    \A i \in 2..(Len(Segs(key)) - 1) : Segs(key)[i] \notin ReferenceOperators

\* C21: for a keyword in which no segment before the last is an operator
\* name, Q returns (or fails as) the condition of the reference parse: the
\* method of the terminal operator name, eq when there is none, applied to
\* the attribute path made of the other segments.
C21_QParsesKeywordByOperatorNames ==
    (xcall.fn = "Q" /\ xres.made /\ NoInnerOperator(xcall.key)) =>
        /\ xres.err = get_expression([cls |-> "Attr",
                                      name |-> Join([i \in 1..Len(ReferencePath(xcall.key)) |->
                                                        <<ReferencePath(xcall.key)[i]>>], ".")],
                                     <<MethodOf(ReferenceOperator(xcall.key))>>, xcall.value).err
        /\ xres.leaf = get_expression([cls |-> "Attr",
                                       name |-> Join([i \in 1..Len(ReferencePath(xcall.key)) |->
                                                         <<ReferencePath(xcall.key)[i]>>], ".")],
                                      <<MethodOf(ReferenceOperator(xcall.key))>>, xcall.value).leaf

\* the operands a condition method of boto3 takes
Takes(m) == IF m = "between" THEN 2 ELSE IF m \in {"exists", "not_exists", "size"} THEN 0 ELSE 1

\* a get_expression call whose operator is a condition method of the class
MethodCalled ==
    /\ xcall.fn = "get_expression" /\ xres.made
    /\ xcall.op[1] \in (IF xcall.cls = "Key" THEN KeyMethods ELSE AttrMethods)

Built(vals) ==
    /\ xres.err = ""
    /\ xres.leaf = <<[cls |-> xcall.cls, name |-> xcall.key, op |-> xcall.op[1], vals |-> vals]>>

Failed == xres.err = "TypeError" /\ xres.leaf = <<>>

\* C22: get_expression applies a one-operand operator to the operand as it
\* is, whatever the operand; for another operator it applies the operator
\* with no operand when the operand is True, else with the operand's
\* elements when the operand is iterable, and fails with the TypeError when
\* neither fits: exists given True builds the no-operand condition, between
\* given [1, 2] builds between(1, 2), exists given False fails.
C22_GetExpressionArityFallback ==
    MethodCalled =>
        /\ Takes(xcall.op[1]) = 1 => Built(<<xcall.value>>)
        /\ (Takes(xcall.op[1]) # 1 /\ xcall.value = BoolV(TRUE)) =>
               IF Takes(xcall.op[1]) = 0 THEN Built(<<>>) ELSE Failed
        /\ (Takes(xcall.op[1]) # 1 /\ xcall.value.t \in {"list", "str"}) =>
               IF Len(xcall.value.a) = Takes(xcall.op[1])
               THEN /\ xres.err = ""
                    /\ Len(xres.leaf[1].vals) = Len(xcall.value.a)
                    /\ \A i \in 1..Len(xcall.value.a) : xres.leaf[1].vals[i].a = <<xcall.value.a[i]>>
               ELSE Failed
        /\ (Takes(xcall.op[1]) # 1 /\ xcall.value \in {BoolV(FALSE), IntV(5)}) => Failed
        /\ (xcall.op = <<"between">> /\ xcall.value = ListV(<<1, 2>>)) =>
               Built(<<IntV(1), IntV(2)>>)

C22_Witness ==
    /\ MethodCalled
    /\ xcall.op = <<"between">>
    /\ xcall.value = ListV(<<1, 2>>)
    /\ xres.err = ""
    /\ xres.leaf[1].vals = <<IntV(1), IntV(2)>>

(***************************************************************************)
(* Properties of the instance operations (SpecModel).                      *)
(***************************************************************************)
RequestOps == {"put_item", "update_item", "delete_item"}
BeforeSignals == {"pre_save", "pre_update", "pre_delete"}
AfterSignals == {"post_save", "post_update", "post_delete"}
StoreErrors == {"ClientError", "ConditionFailed", "HashKeyExists"}

\* the before- and after-signal of the operation called
BeforeOf(c) ==
    IF c.op = "delete" THEN "pre_delete"
    ELSE IF c.op = "save" /\ ~c.partial THEN "pre_save" ELSE "pre_update"
AfterOf(c) ==
    IF c.op = "delete" THEN "post_delete"
    ELSE IF c.op = "save" /\ ~c.partial THEN "post_save" ELSE "post_update"

Positions(events) == {i \in 1..Len(mtrace) : mtrace[i] \in events}

\* C23: in a save, update or delete of an instance the before-signal is sent
\* first and once, every store request comes after it and the after-signal
\* after every store request; when a before-subscriber raises there is no
\* store request and no after-signal, and when the store request fails
\* there is no after-signal.
C23_SignalsBracketTheStoreRequest ==
    mcall.op \in {"save", "update", "delete"} =>
        /\ Positions(BeforeSignals) = {1} /\ mtrace[1] = BeforeOf(mcall)
        /\ Cardinality(Positions(RequestOps)) <= 1
        /\ \A i \in Positions(AfterSignals) :
               /\ mtrace[i] = AfterOf(mcall)
               /\ i = Len(mtrace)
               /\ \A j \in Positions(RequestOps) : j < i
        /\ Cardinality(Positions(AfterSignals)) <= 1
        /\ mcall.raises => mtrace = <<BeforeOf(mcall)>> /\ mres.reqs = <<>>
        /\ (mres.reqs # <<>> /\ mres.err \in StoreErrors) => Positions(AfterSignals) = {}
        /\ (mres.reqs # <<>> /\ mres.err = "") =>
               mtrace = <<BeforeOf(mcall), mres.reqs[1].op, AfterOf(mcall)>>

\* a delete whose store request failed, after a full save that succeeded
C23_Witness ==
    /\ mcall.op = "delete"
    /\ mres.err = "ClientError"
    /\ mtrace = <<"pre_delete", "delete_item">>
    /\ stored # <<>> /\ stored[<<"count">>] = IntV(5)

SentFields(req) ==
    { req.ExpressionAttributeNames[1][p] : p \in DOMAIN req.ExpressionAttributeNames[1] }

\* the recorded fields whose attribute differs from the recorded value
Differing == { k \in DOMAIN _validated_data : instance[k] # _validated_data[k] }

\* C25: a partial save sends an update of exactly the fields that differ
\* from the recorded values, under the instance's key; it sends nothing
\* when none differs, and nothing when it directly follows a successful
\* save.
C25_PartialSaveSendsTheDifference ==
    [][ (mcall'.op = "save" /\ mcall'.partial /\ ~mcall'.raises) =>
          /\ Differing = {} => mres'.reqs = <<>>
          /\ mres'.reqs # <<>> =>
                 /\ mres'.reqs[1].op = "update_item"
                 /\ SentFields(mres'.reqs[1]) = Differing \ table_attribute_fields
                 /\ mres'.reqs[1].Key[1] = Restrict(instance, table_attribute_fields)
          /\ (mcall.op = "save" /\ mres.err = "") => mres'.reqs = <<>> ]_vars

(***************************************************************************)
(* Properties of get_table (SpecGetTable) and update_table                 *)
(* (SpecUpdateTable).                                                      *)
(***************************************************************************)
\* C26: the table handle of a table class is created at most once, and every
\* get_table call, from any thread, returns that one cached handle.
C26_TableHandleCreatedOnce ==
    /\ created <= 1
    /\ \A t \in Threads : returned[t] # None => returned[t] = Some(1) /\ returned[t] = _table

\* C27: an update_table call that returns has returned the number of update
\* requests issued during that call, and each of them was issued when the
\* table and its global indexes had been seen ACTIVE; also when an earlier
\* call ended with TableNotActive.
C27_UpdateTableCountsItsUpdates ==
    /\ ures.active
    /\ upc = "update" => AllActive(table)
    /\ (ures.done /\ ures.err = "") => ures.ret = issued

\* C28: the durations slept for one awaited table or index are 0.5, 1, 2, 4,
\* 8, 16, 20, 20, ... time-units (1, 2, 4, 8, 16, 32, 40, 40, ... halves).
C28_WaitBackoff ==
    /\ \A i \in 1..Len(sleeps) : sleeps[i] = Min(40, 2 ^ (i - 1))
    /\ wait_duration = Min(40, 2 ^ Len(sleeps))

\* eight sleeps for an index, the last two of 20 time-units, after the wait
\* for the table
C28_Witness ==
    /\ upc = "wait"
    /\ things[thing] = "by_color"
    /\ Len(sleeps) >= 8
    /\ sleeps[7] = 40 /\ sleeps[8] = 40
    /\ issued > 0

\* C30: a call made when the store's table matches the descriptor issues no
\* update request and returns 0, and no call issues more update requests
\* than there are settings and indexes to change.
C30_UpdateTableConverges ==
    (upc # "idle" \/ ures.done) =>
        /\ Matches(descriptor, at_entry) =>
               /\ issued = 0
               /\ (ures.done /\ ures.err = "") => ures.ret = 0
        /\ issued <= 2 + Cardinality(DOMAIN at_entry.gsi) + Cardinality(descriptor.indexes)

====
